---------------------------- MODULE Spec2Model ----------------------------
(***************************************************************************)
(* A model of the busking1 synchronisation layer:                          *)
(*   - Os2lServer (src/os2l_server.py): the single-client OS2L listener,   *)
(*     its receive buffer and its frame decoder, together with the peers   *)
(*     and the kernel queues it talks to;                                  *)
(*   - Metronome (src/metronome.py): the beat clock and its tap tempo.     *)
(* Text is modelled as sequences of characters.  An OS2L frame is the four *)
(* characters "{", a kind, an argument and "}"; the kind stands for the    *)
(* "evt" member and the argument for the members that follow it.           *)
(* Floating point values are modelled as exact rationals and instants as   *)
(* whole numbers of 1/UnitsPerSec seconds.                                 *)
(***************************************************************************)
EXTENDS Integers, Sequences, FiniteSets, TLC

\* ------------------------------------------------------------------ bounds
MaxConn == 2
MaxFrames == 3
MaxTime == 4
UnitsPerSec == 2

\* --------------------------------------------------------------- constants
None == 0
RECV_SIZE == 1024
LISTEN_BACKLOG == 2

VARIABLES
    \* Os2lServer
    listen_socket, selector, client_addr, client_socket, recv_buffer,
    \* the kernel and the peers
    backlog, conn, frames_sent,
    \* what the caller of the server observed
    error, last,
    \* Metronome
    beats_per_sec, sync_pos, sync_secs, prev_pos, now_pos, now_secs,
    delta_secs, tap_queue,
    \* time.perf_counter(), and what the caller of the metronome observed
    clock, m_error, m_last,
    \* apc_mini_mk2.Device
    inport, outport, input_state_by_id, led_state_by_id,
    \* the LEDs of the device, the object the caller of the Device holds, the
    \* LED state the caller last set for every control, what the caller
    \* observed, and whether apc_mini_mk2 runs as __main__
    device_led, held, last_set, d_error, d_last, run_as_main,
    \* the messages buffered at inport and the events the last tick() yielded
    in_buffer, yielded,
    \* BuskingApp.main_loop: where it stands, the events still to be handled
    \* and the steps of the iteration so far
    app_pc, app_polled, app_midi, app_log,
    \* a call of a pure function of apc_mini_mk2 and what it returned
    fn_call, fn_result

serverVars == <<listen_socket, selector, client_addr, client_socket, recv_buffer,
                backlog, conn, frames_sent, error, last>>
clockVars == <<beats_per_sec, sync_pos, sync_secs, prev_pos, now_pos, now_secs,
               delta_secs, tap_queue, clock, m_error, m_last>>
deviceVars == <<inport, outport, input_state_by_id, led_state_by_id, device_led,
                held, last_set, d_error, d_last, run_as_main, in_buffer, yielded>>
callVars == <<fn_call, fn_result>>
appVars == <<app_pc, app_polled, app_midi, app_log>>
vars == <<serverVars, clockVars, deviceVars, callVars, appVars>>

\* ------------------------------------------------------------- wire format
ConnIds == 1..MaxConn
LSOCK == MaxConn + 1

KindChars == {"n", "c", "b", "u"}
ArgChars == {"0", "1"}
Frame(k, a) == <<"{", k, a, "}">>
Frames == {Frame(k, a) : k \in KindChars, a \in ArgChars}
\* the frames the modelled peers write: one of every kind
PeerFrames == {Frame("b", "1"), Frame("c", "0"), Frame("n", "1"), Frame("u", "0")}

BtnEvent(name, page, is_on) ==
    [type |-> "BtnEvent", name |-> name, page |-> page, is_on |-> is_on]
CmdEvent(idnum, param) ==
    [type |-> "CmdEvent", idnum |-> idnum, param |-> param]
BeatEvent(change, pos, bpm, strength) ==
    [type |-> "BeatEvent", change |-> change, pos |-> pos, bpm |-> bpm, strength |-> strength]

\* An exception that left poll(): its type and the source line that raised it.
NoError == [exc |-> "none", line |-> 0]
Raised(exc, line) == [exc |-> exc, line |-> line]

\* find with a miss reported as the last index instead of -1
find_miss_as_last(s, ch) ==
    IF \E i \in 1..Len(s) : s[i] = ch
    THEN (CHOOSE i \in 1..Len(s) : s[i] = ch /\ \A j \in 1..(i-1) : s[j] # ch) - 1
    ELSE Len(s) - 1

\* str.find(ch): the 0-based index of the first ch, or -1
find(s, ch) ==
    IF \E i \in 1..Len(s) : s[i] = ch
    THEN (CHOOSE i \in 1..Len(s) : s[i] = ch /\ \A j \in 1..(i-1) : s[j] # ch) - 1
    ELSE -1

\* json.loads on one event_str: the object, or a JSONDecodeError
json_loads(event_str) ==
    IF /\ Len(event_str) = 4
       /\ event_str[1] = "{"
       /\ event_str[2] \in KindChars
       /\ event_str[3] \in ArgChars
       /\ event_str[4] = "}"
    THEN [ok |-> TRUE,
          evt |-> CASE event_str[2] = "n" -> "btn"
                    [] event_str[2] = "c" -> "cmd"
                    [] event_str[2] = "b" -> "beat"
                    [] OTHER -> "unknown",
          arg |-> IF event_str[3] = "1" THEN 1 ELSE 0]
    ELSE [ok |-> FALSE, evt |-> "", arg |-> 0]

\* socket.recv(bufsize) on a ready socket: at most bufsize of the queued bytes
recv(inflight, bufsize) ==
    IF Len(inflight) <= bufsize THEN inflight ELSE SubSeq(inflight, 1, bufsize)

\* recv_buffer[:end+1] and recv_buffer[end+1:]
event_str_of(buf, end) == SubSeq(buf, 1, end + 1)
\* recv_buffer[end:], the closing brace left in the buffer
buffer_after_keeps_brace(buf, end) == SubSeq(buf, end + 1, Len(buf))
\* recv_buffer[end+2:], the character after the closing brace lost
buffer_after_skips_one(buf, end) == SubSeq(buf, end + 3, Len(buf))
buffer_after(buf, end) == SubSeq(buf, end + 2, Len(buf))

\* the while loop of __recv_from_client: consume complete json nodes
RECURSIVE decode_loop(_, _)
decode_loop(buf, events) ==
    IF buf = <<>> THEN [recv_buffer |-> buf, events |-> events, error |-> NoError]
    ELSE IF buf[1] # "{"
    THEN [recv_buffer |-> buf, events |-> events,
          error |-> Raised("AssertionError", 145)]
    ELSE LET end == find(buf, "}") IN
         IF end < 0 THEN [recv_buffer |-> buf, events |-> events, error |-> NoError]
         ELSE LET event_str == event_str_of(buf, end)
                  rest == buffer_after(buf, end)
                  event_json == json_loads(event_str)
              IN IF ~event_json.ok
                 THEN [recv_buffer |-> rest, events |-> events,
                       error |-> Raised("JSONDecodeError", 155)]
                 ELSE IF event_json.evt = "btn"
                 THEN decode_loop(rest, Append(events,
                          BtnEvent("name", None, event_json.arg = 1)))
                 ELSE IF event_json.evt = "cmd"
                 THEN decode_loop(rest, Append(events, CmdEvent(event_json.arg, 0)))
                 ELSE IF event_json.evt = "beat"
                 THEN decode_loop(rest, Append(events,
                          BeatEvent(TRUE, event_json.arg, 120, 1)))
                 ELSE decode_loop(rest, events)

\* the while loop of __recv_from_client: the event_str of every iteration
\* that pulls one out of the buffer, in order
RECURSIVE decode_frames(_)
decode_frames(buf) ==
    IF buf = <<>> \/ buf[1] # "{" THEN <<>>
    ELSE LET end == find(buf, "}") IN
         IF end < 0 THEN <<>>
         ELSE LET event_str == event_str_of(buf, end)
                  rest == buffer_after(buf, end)
              IN IF ~json_loads(event_str).ok THEN <<event_str>>
                 ELSE <<event_str>> \o decode_frames(rest)

\* ------------------------------------------------------------- Os2lServer
\* The state one poll() works on: the server's fields, the kernel queues it
\* reads, the events yielded so far and the exception raised, if any.
ServerState ==
    [client_socket |-> client_socket, client_addr |-> client_addr,
     keys |-> selector.keys, recv_buffer |-> recv_buffer,
     backlog |-> backlog, conn |-> conn,
     events |-> <<>>, error |-> NoError,
     read |-> FALSE, data |-> <<>>, accepted |-> None]

accept_client(s) ==
    IF s.client_socket # None THEN [s EXCEPT !.error = Raised("AssertionError", 110)]
    ELSE LET c == Head(s.backlog) IN
         [s EXCEPT !.client_socket = c, !.client_addr = c,
                   !.backlog = Tail(s.backlog),
                   !.keys = @ \cup {c},
                   !.conn[c].state = "accepted",
                   !.accepted = c]

data_is_None(data) == FALSE

recv_from_client(s) ==
    LET c == s.client_socket
        data == recv(s.conn[c].inflight, RECV_SIZE)
        s1 == [s EXCEPT !.conn[c].inflight = SubSeq(@, Len(data) + 1, Len(@)),
                        !.conn[c].eof_read = (@ \/ data = <<>>),
                        !.read = TRUE, !.data = data]
    IN IF data_is_None(data)
       THEN [s1 EXCEPT !.conn[c].state = "closed",
                       !.client_socket = None, !.client_addr = None,
                       !.recv_buffer = <<>>]
       ELSE LET r == decode_loop(s1.recv_buffer \o data, <<>>) IN
            [s1 EXCEPT !.recv_buffer = r.recv_buffer,
                       !.events = @ \o r.events,
                       !.error = r.error]

\* the for loop of poll() over the keys select() returned
RECURSIVE poll_keys(_, _)
poll_keys(s, keys) ==
    IF keys = <<>> \/ s.error # NoError THEN s
    ELSE LET key == Head(keys) IN
         IF key = LSOCK THEN poll_keys(accept_client(s), Tail(keys))
         ELSE IF key = s.client_socket THEN poll_keys(recv_from_client(s), Tail(keys))
         ELSE [s EXCEPT !.error = Raised("Exception", 106)]

\* selector.select(0.0): the registered sockets that are readable now
ready_keys ==
    {k \in selector.keys :
        \/ k = LSOCK /\ backlog # <<>>
        \/ k \in ConnIds /\ (conn[k].inflight # <<>> \/ conn[k].peer_closed)}

Orders(S) ==
    {o \in UNION {[1..n -> S] : n \in 0..Cardinality(S)} :
        /\ Len(o) = Cardinality(S)
        /\ \A i, j \in 1..Len(o) : i # j => o[i] # o[j]}

Started == listen_socket # None /\ selector.open

\* last: what the call just made to the server did (forgotten at the next step)
NoLast == [op |-> "none", before |-> <<>>, read |-> FALSE, data |-> <<>>,
           events |-> <<>>, accepted |-> None]

InitServer ==
    /\ listen_socket = None
    /\ selector = [open |-> FALSE, keys |-> {}]
    /\ client_addr = None
    /\ client_socket = None
    /\ recv_buffer = <<>>
    /\ backlog = <<>>
    /\ conn = [c \in ConnIds |->
                 [state |-> "unused", inflight |-> <<>>, sending |-> <<>>,
                  peer_closed |-> FALSE, eof_read |-> FALSE]]
    /\ frames_sent = 0
    /\ error = NoError
    /\ last = NoLast

start_effect(keys0) ==
    /\ listen_socket' = LSOCK
    /\ selector' = [open |-> TRUE, keys |-> keys0 \cup {LSOCK}]

\* the connections the kernel drops when the sockets of the server are closed
shutdown_conn ==
    [c \in ConnIds |->
        IF conn[c].state \in {"pending", "accepted"}
        THEN [conn[c] EXCEPT !.state = "closed", !.inflight = <<>>, !.sending = <<>>]
        ELSE conn[c]]

\* __enter__: the server is started once, by its with-statement
start ==
    /\ error = NoError
    /\ listen_socket = None
    /\ last.op # "shutdown"
    /\ start_effect({})
    /\ last' = [NoLast EXCEPT !.op = "start"]
    /\ UNCHANGED <<client_addr, client_socket, recv_buffer, backlog, conn,
                   frames_sent, error>>
    /\ UNCHANGED <<clockVars, deviceVars, callVars, appVars>>

\* __exit__: the server is shut down once, when its with-statement is left
shutdown ==
    /\ error = NoError
    /\ Started
    /\ client_addr' = None
    /\ client_socket' = None
    /\ selector' = [open |-> FALSE, keys |-> {}]
    /\ listen_socket' = None
    /\ backlog' = <<>>
    /\ conn' = shutdown_conn
    /\ last' = [NoLast EXCEPT !.op = "shutdown", !.before = recv_buffer]
    /\ UNCHANGED <<recv_buffer, frames_sent, error>>
    /\ UNCHANGED <<clockVars, deviceVars, callVars, appVars>>

restart ==
    /\ error = NoError
    /\ Started
    /\ client_addr' = None
    /\ client_socket' = None
    /\ backlog' = <<>>
    /\ conn' = shutdown_conn
    /\ start_effect({})
    /\ last' = [NoLast EXCEPT !.op = "restart", !.before = recv_buffer]
    /\ UNCHANGED <<recv_buffer, frames_sent, error>>
    /\ UNCHANGED <<clockVars, deviceVars, callVars, appVars>>

poll ==
    /\ error = NoError
    /\ Started
    /\ \E order \in Orders(ready_keys) :
         LET r == poll_keys(ServerState, order) IN
         /\ client_socket' = r.client_socket
         /\ client_addr' = r.client_addr
         /\ selector' = [selector EXCEPT !.keys = r.keys]
         /\ recv_buffer' = r.recv_buffer
         /\ backlog' = r.backlog
         /\ conn' = r.conn
         /\ error' = r.error
         /\ last' = [op |-> "poll", before |-> recv_buffer, read |-> r.read,
                     data |-> r.data, events |-> r.events, accepted |-> r.accepted]
    /\ UNCHANGED <<listen_socket, frames_sent>>
    /\ UNCHANGED <<clockVars, deviceVars, callVars, appVars>>

\* ------------------------------------------------------ peers and kernel
\* a peer connects: the kernel queues the connection on the listening socket
PeerConnect(c) ==
    /\ error = NoError
    /\ listen_socket # None
    /\ conn[c].state = "unused"
    /\ \A d \in ConnIds : d < c => conn[d].state # "unused"
    /\ Len(backlog) < LISTEN_BACKLOG
    /\ backlog' = Append(backlog, c)
    /\ conn' = [conn EXCEPT ![c].state = "pending"]
    /\ UNCHANGED <<listen_socket, selector, client_addr, client_socket, recv_buffer,
                   frames_sent, error>>
    /\ last' = NoLast
    /\ UNCHANGED <<clockVars, deviceVars, callVars, appVars>>

\* a peer starts writing one more frame
PeerBeginFrame(c, f) ==
    /\ error = NoError
    /\ conn[c].state = "accepted"
    /\ ~conn[c].peer_closed
    /\ conn[c].sending = <<>>
    /\ frames_sent < MaxFrames
    /\ frames_sent' = frames_sent + 1
    /\ conn' = [conn EXCEPT ![c].sending = f]
    /\ UNCHANGED <<listen_socket, selector, client_addr, client_socket, recv_buffer,
                   backlog, error>>
    /\ last' = NoLast
    /\ UNCHANGED <<clockVars, deviceVars, callVars, appVars>>

\* the network delivers the next n characters of the frame being written
PeerDeliver(c, n) ==
    /\ error = NoError
    /\ conn[c].state = "accepted"
    /\ n \in 1..Len(conn[c].sending)
    /\ conn' = [conn EXCEPT ![c].inflight = @ \o SubSeq(conn[c].sending, 1, n),
                            ![c].sending = SubSeq(@, n + 1, Len(@))]
    /\ UNCHANGED <<listen_socket, selector, client_addr, client_socket, recv_buffer,
                   backlog, frames_sent, error>>
    /\ last' = NoLast
    /\ UNCHANGED <<clockVars, deviceVars, callVars, appVars>>

\* a peer closes its end, between two frames
PeerClose(c) ==
    /\ error = NoError
    /\ conn[c].state = "accepted"
    /\ ~conn[c].peer_closed
    /\ conn[c].sending = <<>>
    /\ conn' = [conn EXCEPT ![c].peer_closed = TRUE]
    /\ UNCHANGED <<listen_socket, selector, client_addr, client_socket, recv_buffer,
                   backlog, frames_sent, error>>
    /\ last' = NoLast
    /\ UNCHANGED <<clockVars, deviceVars, callVars, appVars>>

\* ---------------------------------------------------------------- rationals
\* A float is modelled as the exact rational <<n, d>>, d > 0, in lowest terms.
RECURSIVE GCD(_, _)
GCD(a, b) == IF b = 0 THEN a ELSE GCD(b, a % b)
Abs(x) == IF x < 0 THEN -x ELSE x
Rat(n, d) ==
    LET sn == IF d < 0 THEN -n ELSE n
        sd == Abs(d)
        g == GCD(Abs(sn), sd)
    IN <<sn \div g, sd \div g>>
RInt(k) == <<k, 1>>
RAdd(x, y) == Rat(x[1] * y[2] + y[1] * x[2], x[2] * y[2])
RSub(x, y) == Rat(x[1] * y[2] - y[1] * x[2], x[2] * y[2])
RMul(x, y) == Rat(x[1] * y[1], x[2] * y[2])
RDiv(x, y) == Rat(x[1] * y[2], x[2] * y[1])
RLe(x, y) == x[1] * y[2] <= y[1] * x[2]
RLt(x, y) == x[1] * y[2] < y[1] * x[2]
RFloor(x) == x[1] \div x[2]
\* int(x): the fractional part dropped, rounding towards zero
RTrunc(x) == IF x[1] < 0 THEN -((-x[1]) \div x[2]) ELSE x[1] \div x[2]
\* x % 1.0
RMod1(x) == RSub(x, RInt(RFloor(x)))
\* an instant or a duration counted in units, as seconds
Secs(t) == Rat(t, UnitsPerSec)

\* ---------------------------------------------------------------- Metronome
tap_queue_max_len == 4
tap_queue_reset_secs == 1

\* the inputs of sync_beats: the pos and the bpm of a BeatEvent
SyncPositions == {2}
SyncBpms == {90}

InitClock ==
    /\ beats_per_sec = Rat(60, 60)
    /\ sync_pos = RInt(0)
    /\ sync_secs = 0
    /\ prev_pos = RInt(0)
    /\ now_pos = RInt(0)
    /\ now_secs = 0
    /\ delta_secs = 0
    /\ tap_queue = <<>>
    /\ clock = 0
    /\ m_error = "none"
    /\ m_last = [op |-> "init", resynced |-> FALSE]

\* time.perf_counter() moves on
TimePasses ==
    /\ m_error = "none"
    /\ clock < MaxTime
    /\ clock' = clock + 1
    /\ UNCHANGED <<beats_per_sec, sync_pos, sync_secs, prev_pos, now_pos, now_secs,
                   delta_secs, tap_queue, m_error, m_last>>
    /\ UNCHANGED <<serverVars, deviceVars, callVars>>

\* sync_beats with the instant of the sync left as it was
sync_beats_anchor_kept(pos, bps) ==
    /\ m_error = "none"
    /\ beats_per_sec' = bps
    /\ sync_pos' = RInt(pos)
    /\ m_last' = [op |-> "sync_beats", resynced |-> TRUE]
    /\ UNCHANGED <<sync_secs, prev_pos, now_pos, now_secs, delta_secs, tap_queue,
                   clock, m_error>>
    /\ UNCHANGED <<serverVars, deviceVars, callVars>>

sync_beats(pos, bps) ==
    /\ m_error = "none"
    /\ beats_per_sec' = bps
    /\ sync_pos' = RInt(pos)
    /\ sync_secs' = clock
    /\ m_last' = [op |-> "sync_beats", resynced |-> TRUE]
    /\ UNCHANGED <<prev_pos, now_pos, now_secs, delta_secs, tap_queue, clock, m_error>>
    /\ UNCHANGED <<serverVars, deviceVars, callVars>>

\* on_one with the sync anchored at time.perf_counter() instead of now_secs
on_one_anchored_at_clock ==
    /\ m_error = "none"
    /\ sync_pos' = RInt(0)
    /\ sync_secs' = clock
    /\ m_last' = [op |-> "on_one", resynced |-> TRUE]
    /\ UNCHANGED <<beats_per_sec, prev_pos, now_pos, now_secs, delta_secs, tap_queue,
                   clock, m_error>>
    /\ UNCHANGED <<serverVars, deviceVars, callVars>>

on_one ==
    /\ m_error = "none"
    /\ sync_pos' = RInt(0)
    /\ sync_secs' = now_secs
    /\ m_last' = [op |-> "on_one", resynced |-> TRUE]
    /\ UNCHANGED <<beats_per_sec, prev_pos, now_pos, now_secs, delta_secs, tap_queue,
                   clock, m_error>>
    /\ UNCHANGED <<serverVars, deviceVars, callVars>>

\* the queue cleared only when the gap is more than tap_queue_reset_secs
updated_tap_queue_gap_over_reset ==
    LET q == IF tap_queue # <<>>
             THEN LET delta_tap == now_secs - tap_queue[Len(tap_queue)] IN
                  IF RLt(RInt(tap_queue_reset_secs), Secs(delta_tap)) THEN <<>>
                  ELSE IF Len(tap_queue) >= tap_queue_max_len THEN Tail(tap_queue)
                  ELSE tap_queue
             ELSE tap_queue
    IN Append(q, now_secs)

\* the queue with its oldest tap dropped only beyond tap_queue_max_len
updated_tap_queue_drops_late ==
    LET q == IF tap_queue # <<>>
             THEN LET delta_tap == now_secs - tap_queue[Len(tap_queue)] IN
                  IF RLe(RInt(tap_queue_reset_secs), Secs(delta_tap)) THEN <<>>
                  ELSE IF Len(tap_queue) > tap_queue_max_len THEN Tail(tap_queue)
                  ELSE tap_queue
             ELSE tap_queue
    IN Append(q, now_secs)

\* Update tap_queue.
updated_tap_queue ==
    LET q == IF tap_queue # <<>>
             THEN LET delta_tap == now_secs - tap_queue[Len(tap_queue)] IN
                  IF RLe(RInt(tap_queue_reset_secs), Secs(delta_tap)) THEN <<>>
                  ELSE IF Len(tap_queue) >= tap_queue_max_len THEN Tail(tap_queue)
                  ELSE tap_queue
             ELSE tap_queue
    IN Append(q, now_secs)

\* the tempo taken from the number of taps instead of the number of intervals
tap_tempo_counts_taps(q) == RDiv(RInt(Len(q)), Secs(q[Len(q)] - q[1]))

\* (len(tap_queue) - 1.0) / (tap_queue[-1] - tap_queue[0]), the divisor not zero
tap_tempo(q) == RDiv(RInt(Len(q) - 1), Secs(q[Len(q)] - q[1]))

\* the position the beats are synced to: on the beat, or one beat ahead
tap_sync_pos(pos) ==
    LET frac_part == RMod1(pos) IN
    IF RLe(frac_part, Rat(25, 100)) THEN pos ELSE RAdd(pos, RInt(1))

on_tap ==
    /\ m_error = "none"
    /\ LET q == updated_tap_queue IN
       /\ tap_queue' = q
       /\ IF Len(q) >= tap_queue_max_len
          THEN IF q[Len(q)] - q[1] = 0
               THEN /\ m_error' = "ZeroDivisionError"
                    /\ m_last' = [op |-> "on_tap", resynced |-> m_last.resynced]
                    /\ UNCHANGED <<beats_per_sec, sync_pos, sync_secs>>
               ELSE /\ beats_per_sec' = tap_tempo(q)
                    /\ sync_pos' = tap_sync_pos(now_pos)
                    /\ sync_secs' = now_secs
                    /\ m_last' = [op |-> "on_tap", resynced |-> TRUE]
                    /\ UNCHANGED m_error
          ELSE /\ m_last' = [op |-> "on_tap", resynced |-> m_last.resynced]
               /\ UNCHANGED <<beats_per_sec, sync_pos, sync_secs, m_error>>
    /\ UNCHANGED <<prev_pos, now_pos, now_secs, delta_secs, clock>>
    /\ UNCHANGED <<serverVars, deviceVars, callVars>>

\* the position with the sync instant forgotten
song_position_since_zero(sp, bps, ns, ss) == RAdd(sp, RMul(bps, Secs(ns)))
\* the position with the elapsed time negated
song_position_backwards(sp, bps, ns, ss) == RAdd(sp, RMul(bps, Secs(ss - ns)))

\* sync_pos + beats_per_sec * (now_secs - sync_secs)
song_position(sp, bps, ns, ss) == RAdd(sp, RMul(bps, Secs(ns - ss)))

tick ==
    /\ m_error = "none"
    /\ LET prev_secs == now_secs IN
       /\ now_secs' = clock
       /\ delta_secs' = now_secs' - prev_secs
    /\ prev_pos' = now_pos
    /\ now_pos' = song_position(sync_pos, beats_per_sec, now_secs', sync_secs)
    /\ m_last' = [op |-> "tick", resynced |-> FALSE]
    /\ UNCHANGED <<beats_per_sec, sync_pos, sync_secs, tap_queue, clock, m_error>>
    /\ UNCHANGED <<serverVars, deviceVars, callVars>>

\* a new beat reported by every call that follows a move of the position
get_beat_info_any_move(prev, now, scaler) ==
    LET scaled_prev_pos == RMul(scaler, prev)
        scaled_now_pos == RMul(scaler, now)
    IN [t |-> RMod1(scaled_now_pos),
        delta_t |-> RSub(scaled_now_pos, scaled_prev_pos),
        count |-> RTrunc(scaled_now_pos),
        this_frame |-> (scaled_prev_pos # scaled_now_pos)]

\* BeatInfo of prev_pos and now_pos, the beats scaled by scaler
get_beat_info(prev, now, scaler) ==
    LET scaled_prev_pos == RMul(scaler, prev)
        scaled_prev_count == RTrunc(scaled_prev_pos)
        scaled_now_pos == RMul(scaler, now)
        scaled_now_count == RTrunc(scaled_now_pos)
    IN [t |-> RMod1(scaled_now_pos),
        delta_t |-> RSub(scaled_now_pos, scaled_prev_pos),
        count |-> scaled_now_count,
        this_frame |-> (scaled_prev_count # scaled_now_count)]

\* ------------------------------------------------ APC mini mk2: constants
PAD_ROW_COUNT == 8
PAD_COL_COUNT == 8
PAD_COUNT == PAD_COL_COUNT * PAD_ROW_COUNT
PAD_NOTE_START == 0
PAD_NOTE_END == PAD_NOTE_START + PAD_COUNT
TRACK_BTN_COUNT == 8
TRACK_BTN_NOTE_START == 100
TRACK_BTN_NOTE_END == TRACK_BTN_NOTE_START + TRACK_BTN_COUNT
SCENE_BTN_COUNT == 8
SCENE_BTN_NOTE_START == 112
SCENE_BTN_NOTE_END == SCENE_BTN_NOTE_START + SCENE_BTN_COUNT
SHIFT_BTN_NOTE == 122
FADER_COUNT == 9
FADER_CONTROL_START == 48
FADER_CONTROL_END == FADER_CONTROL_START + FADER_COUNT
SYSEX_MANUFACTURER_ID == 71
SYSEX_DEVICE_ID == 127
SYSEX_PRODUCT_MODEL_ID == 79
SYSEX_MSG_PAD_COLORS == 36
SYSEX_MSG_INTRO == 96
SYSEX_MSG_INTRO_ACK == 97

\* what a call returns, or the exception it raises
Ok(v) == [exc |-> "none", val |-> v]
Raise(e) == [exc |-> e, val |-> <<>>]

\* ---------------------------------------------- APC mini mk2: SysEx bytes
\* 1 << 14
INT14_LIMIT == 16384
\* x >> 7
Shr7(x) == x \div 128

\* the low byte of x kept whole, its eighth bit included
And7F_keeps_eighth_bit(x) == x % 256

\* x & 0x7F
And7F(x) == x % 128

\* the two 7-bit halves given in the wrong order
split_int_for_midi_low_first(x) ==
    IF x < INT14_LIMIT THEN Ok(<<And7F(x), And7F(Shr7(x))>>) ELSE Raise("AssertionError")

split_int_for_midi(x) ==
    IF x < INT14_LIMIT THEN Ok(<<And7F(Shr7(x)), And7F(x)>>) ELSE Raise("AssertionError")

\* a mido message; the fields a message type does not have are 0 or <<>>
NoteOn(channel, note, velocity) ==
    [type |-> "note_on", channel |-> channel, note |-> note, velocity |-> velocity,
     data |-> <<>>]
SysEx(data) ==
    [type |-> "sysex", channel |-> 0, note |-> 0, velocity |-> 0, data |-> data]

MakeSysExMessage(msg_type, data) ==
    LET header == <<SYSEX_MANUFACTURER_ID, SYSEX_DEVICE_ID, SYSEX_PRODUCT_MODEL_ID,
                    msg_type>>
        data_len == split_int_for_midi(Len(data))
    IN IF data_len.exc # "none" THEN data_len
       ELSE Ok(SysEx(header \o data_len.val \o data))

\* ------------------------------------------------ APC mini mk2: LED states
\* PadLedBehavior and ButtonLedBehavior
PCT_100 == 6
PULSE_1_8 == 8
OFF == 0
ON == 1
BLINK == 2

\* An object is a record with the address it lives at: two references are
\* the same object when their addresses are equal.
PadLedState(addr, behavior, r, g, b) ==
    [addr |-> addr, behavior |-> behavior, r |-> r, g |-> g, b |-> b]
ButtonLedState(addr, behavior) == [addr |-> addr, behavior |-> behavior]

\* 128 colors, as 0xRRGGBB
PadColorPalette == <<
           0,  1973790,  8355711, 16777215, 16731212, 16711680,  5832704,  1638400,
    16760172, 16733184,  5840128,  2562816, 16777036, 16776960,  5855488,  1644800,
     8978252,  5570304,  1923328,  1321728,  5046092,    65280,    22784,     6400,
     5046110,    65305,    22797,     6402,  5046152,    65365,    22813,     7954,
     5046199,    65433,    22837,     6418,  5030911,    43519,    16722,     4121,
     5015807,    22015,     7513,     2073,  5000447,      255,       89,       25,
     8867071,  5505279,  1638500,   983088, 16731391, 16711935,  5832793,  1638425,
    16731271, 16711764,  5832733,  2228243, 16717056, 10040576,  7950592,  4416512,
      211200,    22325,    21631,      255,    17743,  2425036,  8355711,  2105376,
    16711680, 12451629, 11529478,  6618889,  1084160,    65415,    43519,    11007,
     4129023,  7995647, 11672189,  4202752, 16730624,  8970502,  7536405,    65280,
     3931942,  5898097,  3735500,  5999359,  3232198,  8880105, 13835775, 16711773,
    16744192, 12169216,  9502464,  8609031,  3746560,  1330192,   872504,  1381674,
     1450074,  6896668, 11010058, 14569789, 14182940, 16769318, 10412335,  6796559,
     1973808, 14483307,  8454077, 10131967,  9332479,  4210752,  7697781, 14745599,
    10485760,  3473408,  1757184,   475648, 12169216,  4141312, 11755264,  4920578 >>
\* the index of no palette entry (None)
NoIndex == -1
\* 0xFFFFFFFF \div 2: d < 0xFFFFFFFF exactly when d \div 2 <= 0x7FFFFFFF
MAX_DIST_SQ_DIV_2 == 2147483647

PaletteR(i) == (PadColorPalette[i + 1] \div 65536) % 256
PaletteG(i) == (PadColorPalette[i + 1] \div 256) % 256
PaletteB(i) == PadColorPalette[i + 1] % 256
DistSq(i, r, g, b) ==
    LET dr == r - PaletteR(i)
        dg == g - PaletteG(i)
        db == b - PaletteB(i)
    IN dr * dr + dg * dg + db * db

\* the comparison with the later entry winning a tie
IsCloser_or_equal(dist_sq, best_idx, best_dist_sq) ==
    best_idx = NoIndex \/ dist_sq <= best_dist_sq

\* dist_sq < best_dist_sq, where best_dist_sq is 0xFFFFFFFF as long as
\* best_idx is None
IsCloser(dist_sq, best_idx, best_dist_sq) ==
    IF best_idx = NoIndex THEN dist_sq \div 2 <= MAX_DIST_SQ_DIV_2
    ELSE dist_sq < best_dist_sq

\* Rest(_) of the value of first, first evaluated before Rest is entered
Then(first, Rest(_)) == CHOOSE out \in {Rest(x) : x \in {first}} : TRUE

\* one iteration of the loop of rgb_to_pad_palette_index
palette_step(i, best, rgb) ==
    LET dist_sq == DistSq(i, rgb[1], rgb[2], rgb[3]) IN
    IF IsCloser(dist_sq, best.idx, best.dist_sq)
    THEN [idx |-> i, dist_sq |-> dist_sq]
    ELSE best

\* the iterations lo .. hi - 1 of the loop, in order (the range is halved to
\* keep the evaluation shallow)
RECURSIVE palette_loop(_, _, _, _)
palette_loop(lo, hi, best, rgb) ==
    IF hi <= lo THEN best
    ELSE IF hi = lo + 1 THEN palette_step(lo, best, rgb)
    ELSE LET mid == (lo + hi) \div 2
             Rest(half) == palette_loop(mid, hi, half, rgb)
         IN Then(palette_loop(lo, mid, best, rgb), Rest)

\* the search that takes the blue channel asked for to be 0
palette_search_no_blue(rgb) ==
    palette_loop(0, Len(PadColorPalette), [idx |-> NoIndex, dist_sq |-> 0],
                 <<rgb[1], rgb[2], PaletteB(0)>>).idx

\* Find a palette color that is closest to the desired color.
palette_search(rgb) ==
    palette_loop(0, Len(PadColorPalette), [idx |-> NoIndex, dist_sq |-> 0], rgb).idx

\* the colors the callers of the Device use, searched for once and for all
DeviceColors == {<<0, 0, 0>>, <<255, 68, 0>>}
Searched == {<<rgb, palette_search(rgb)>> : rgb \in DeviceColors}

rgb_to_pad_palette_index(r, g, b) ==
    IF <<r, g, b>> \in DeviceColors
    THEN (CHOOSE found \in Searched : found[1] = <<r, g, b>>)[2]
    ELSE palette_search(<<r, g, b>>)

\* --------------------------------------------------- APC mini mk2: ControlID
ControlID(ty, col, row) == [ty |-> ty, col |-> col, row |-> row]
pad(col, row) == ControlID("Pad", col, row)
track_button(col) == ControlID("TrackButton", col, 0)
scene_button(row) == ControlID("SceneButton", 0, row)
shift_button == ControlID("ShiftButton", 0, 0)
fader(col) == ControlID("Fader", col, 0)
is_pad(id) == id.ty = "Pad"
is_button(id) == id.ty \in {"TrackButton", "SceneButton", "ShiftButton"}
is_fader(id) == id.ty = "Fader"

\* the pad notes laid out column-major
from_midi_note_column_major(note) ==
    IF note < PAD_COUNT
    THEN Ok(ControlID("Pad", note \div 8, note % 8))
    ELSE IF TRACK_BTN_NOTE_START <= note /\ note < TRACK_BTN_NOTE_END
    THEN Ok(ControlID("TrackButton", note - TRACK_BTN_NOTE_START, 0))
    ELSE IF SCENE_BTN_NOTE_START <= note /\ note < SCENE_BTN_NOTE_END
    THEN Ok(ControlID("SceneButton", 0, note - SCENE_BTN_NOTE_START))
    ELSE IF note = SHIFT_BTN_NOTE
    THEN Ok(ControlID("ShiftButton", 0, 0))
    ELSE Raise("ValueError")

_from_midi_note(note) ==
    IF note < PAD_COUNT
    THEN Ok(ControlID("Pad", note % 8, note \div 8))
    ELSE IF TRACK_BTN_NOTE_START <= note /\ note < TRACK_BTN_NOTE_END
    THEN Ok(ControlID("TrackButton", note - TRACK_BTN_NOTE_START, 0))
    ELSE IF SCENE_BTN_NOTE_START <= note /\ note < SCENE_BTN_NOTE_END
    THEN Ok(ControlID("SceneButton", 0, note - SCENE_BTN_NOTE_START))
    ELSE IF note = SHIFT_BTN_NOTE
    THEN Ok(ControlID("ShiftButton", 0, 0))
    ELSE Raise("ValueError")

_to_midi_note(id) ==
    IF id.ty = "Pad" THEN Ok(id.col + id.row * PAD_COL_COUNT)
    ELSE IF id.ty = "TrackButton" THEN Ok(id.col + TRACK_BTN_NOTE_START)
    ELSE IF id.ty = "SceneButton" THEN Ok(id.row + SCENE_BTN_NOTE_START)
    ELSE IF id.ty = "ShiftButton" THEN Ok(SHIFT_BTN_NOTE)
    ELSE Raise("ValueError")

\* the controller range taken with its end included
from_midi_control_end_included(midi_ctrl) ==
    IF FADER_CONTROL_START <= midi_ctrl /\ midi_ctrl <= FADER_CONTROL_END
    THEN Ok(ControlID("Fader", midi_ctrl - FADER_CONTROL_START, 0))
    ELSE Raise("ValueError")

_from_midi_control(midi_ctrl) ==
    IF FADER_CONTROL_START <= midi_ctrl /\ midi_ctrl < FADER_CONTROL_END
    THEN Ok(ControlID("Fader", midi_ctrl - FADER_CONTROL_START, 0))
    ELSE Raise("ValueError")

_to_midi_control(id) ==
    IF id.ty = "Fader" THEN Ok(id.col + FADER_CONTROL_START) ELSE Raise("ValueError")

iter_pad_ids == {pad(c, r) : c \in 0..(PAD_COL_COUNT - 1), r \in 0..(PAD_ROW_COUNT - 1)}
iter_button_ids ==
    {_from_midi_note(note).val :
        note \in (TRACK_BTN_NOTE_START..(TRACK_BTN_NOTE_END - 1))
                 \cup (SCENE_BTN_NOTE_START..(SCENE_BTN_NOTE_END - 1))}
    \cup {shift_button}
iter_fader_ids ==
    {_from_midi_control(c).val : c \in FADER_CONTROL_START..(FADER_CONTROL_END - 1)}

\* ------------------------------------------------ APC mini mk2: input states
ButtonInputState(addr, is_down, was_down) ==
    [addr |-> addr, is_down |-> is_down, was_down |-> was_down]
FaderInputState(addr, pos) == [addr |-> addr, pos |-> pos]

\* where the objects live: one address for every object a shadow map holds,
\* and one for the object the caller holds
LedAddr(id) == <<"led", id>>
InputAddr(id) == <<"input", id>>
CallerAddr == <<"caller">>

\* copy() handing back the object it was called on
copy_same_object(obj, addr) == obj

\* copy(): a new object, at addr, with the fields of obj
copy(obj, addr) == [obj EXCEPT !.addr = addr]

\* -------------------------------------------------- APC mini mk2: pad colors
\* None, and the object run_state refers to
NoRun == <<>>

\* append_run() of _send_pad_colors_by_sysex
append_run(st) ==
    IF st.run_state = NoRun THEN st
    ELSE LET r == split_int_for_midi(st.run_state[1].r)
             g == split_int_for_midi(st.run_state[1].g)
             b == split_int_for_midi(st.run_state[1].b)
         IN IF r.exc # "none" \/ g.exc # "none" \/ b.exc # "none"
            THEN [st EXCEPT !.exc = "AssertionError"]
            ELSE [st EXCEPT !.data = @ \o <<st.run_start, st.run_end>>
                                       \o r.val \o g.val \o b.val]

\* two colors taken for equal as soon as their red channels are
same_color_red_only(run_state, cur_state) == run_state.r = cur_state.r

\* no pad taken to continue the run of the pad before it
same_color_never(run_state, cur_state) == FALSE

\* run_state.r == cur_state.r and run_state.g == cur_state.g and ...
same_color(run_state, cur_state) ==
    /\ run_state.r = cur_state.r
    /\ run_state.g = cur_state.g
    /\ run_state.b = cur_state.b

\* one iteration of the loop of _send_pad_colors_by_sysex
pad_colors_step(leds, note, st) ==
    IF st.exc # "none" THEN st
    ELSE LET ctrl_id == _from_midi_note(note)
         IN IF ctrl_id.exc # "none" THEN [st EXCEPT !.exc = ctrl_id.exc]
            ELSE IF ctrl_id.val \notin DOMAIN leds THEN [st EXCEPT !.exc = "KeyError"]
            ELSE LET cur_state == leds[ctrl_id.val] IN
                 IF st.run_state # NoRun /\ same_color(st.run_state[1], cur_state)
                 THEN [st EXCEPT !.run_end = note]
                 ELSE [append_run(st) EXCEPT !.run_start = note,
                                             !.run_end = note,
                                             !.run_state = <<cur_state>>]

\* the iterations of the loop for range(note, note_end), in order (the range
\* is halved to keep the evaluation shallow)
RECURSIVE pad_colors_loop(_, _, _, _)
pad_colors_loop(leds, note, note_end, st) ==
    IF note_end <= note THEN st
    ELSE IF note_end = note + 1 THEN pad_colors_step(leds, note, st)
    ELSE LET mid == (note + note_end) \div 2
             Rest(half) == pad_colors_loop(leds, mid, note_end, half)
         IN Then(pad_colors_loop(leds, note, mid, st), Rest)

\* the message _send_pad_colors_by_sysex(note_start, note_count) sends
pad_colors_sysex(leds, note_start, note_count) ==
    LET st0 == [data |-> <<>>, run_start |-> None, run_end |-> None,
                run_state |-> NoRun, exc |-> "none"]
        st == append_run(pad_colors_loop(leds, note_start, note_start + note_count, st0))
    IN IF st.exc # "none" THEN Raise(st.exc)
       ELSE MakeSysExMessage(SYSEX_MSG_PAD_COLORS, st.data)

\* the palette index sent as the channel and the behavior as the velocity
pad_note_on_swapped(note, led_state) ==
    LET pal_idx == rgb_to_pad_palette_index(led_state.r, led_state.g, led_state.b)
    IN NoteOn(pal_idx, note, led_state.behavior)

\* the message of _send_pad_led_state_by_note_on
pad_note_on(note, led_state) ==
    LET pal_idx == rgb_to_pad_palette_index(led_state.r, led_state.g, led_state.b)
    IN NoteOn(led_state.behavior, note, pal_idx)

\* the behavior of a button sent as the channel
btn_note_on_as_channel(note, led_state) == NoteOn(led_state.behavior, note, 0)

\* the message of _send_btn_led_state_by_note_on
btn_note_on(note, led_state) == NoteOn(0, note, led_state.behavior)

\* ------------------------------------------------- the APC mini mk2 itself
\* What the device makes of the messages it is sent (spec.md, section 6):
\* a note-on sets the behavior of a pad (channel) with a palette color
\* (velocity) or the behavior of a button (velocity); a pad color message is
\* a list of runs (start, end, r, g, b) with every channel a 14-bit pair.
Join14(high, low) == high * 128 + low
Unset == None - 1
UnsetLed == [behavior |-> Unset, pal |-> Unset, r |-> Unset, g |-> Unset, b |-> Unset]
PadNotes == PAD_NOTE_START..(PAD_NOTE_END - 1)
ButtonNotes ==
    (TRACK_BTN_NOTE_START..(TRACK_BTN_NOTE_END - 1))
        \cup (SCENE_BTN_NOTE_START..(SCENE_BTN_NOTE_END - 1)) \cup {SHIFT_BTN_NOTE}
RunsOf(payload) ==
    [i \in 1..(Len(payload) \div 8) |->
        LET o == 8 * (i - 1) IN
        [start |-> payload[o + 1], end |-> payload[o + 2],
         r |-> Join14(payload[o + 3], payload[o + 4]),
         g |-> Join14(payload[o + 5], payload[o + 6]),
         b |-> Join14(payload[o + 7], payload[o + 8])]]
IsPadColors(msg) ==
    /\ msg.type = "sysex"
    /\ Len(msg.data) >= 6
    /\ SubSeq(msg.data, 1, 4) = <<SYSEX_MANUFACTURER_ID, SYSEX_DEVICE_ID,
                                  SYSEX_PRODUCT_MODEL_ID, SYSEX_MSG_PAD_COLORS>>
    /\ Join14(msg.data[5], msg.data[6]) = Len(msg.data) - 6
    /\ (Len(msg.data) - 6) % 8 = 0
PayloadOf(msg) == SubSeq(msg.data, 7, Len(msg.data))
\* the pads a run list colors, the later run winning
Painted(runs, led, n) ==
    LET covering == {i \in DOMAIN runs : runs[i].start <= n /\ n <= runs[i].end} IN
    IF covering = {} THEN led
    ELSE LET i == CHOOSE k \in covering : \A j \in covering : j <= k
         IN [led EXCEPT !.r = runs[i].r, !.g = runs[i].g, !.b = runs[i].b]
\* the LEDs after the device has received msgs in order
DeviceReceive(dev, msgs) ==
    LET note_ons == {i \in DOMAIN msgs : msgs[i].type = "note_on"}
        colors == {i \in DOMAIN msgs : IsPadColors(msgs[i])}
        runs == [i \in colors |-> RunsOf(PayloadOf(msgs[i]))] @@ <<>>
        Last(found) == IF found = {} THEN 0
                       ELSE CHOOSE i \in found : \A j \in found : j <= i
    IN [n \in DOMAIN dev |->
           LET on == Last({i \in note_ons : msgs[i].note = n})
               painted == Last({i \in colors :
                                   \E k \in DOMAIN runs[i] :
                                       runs[i][k].start <= n /\ n <= runs[i][k].end})
               lit == IF on = 0 THEN dev[n]
                      ELSE IF n \in PadNotes
                      THEN [dev[n] EXCEPT !.behavior = msgs[on].channel,
                                          !.pal = msgs[on].velocity]
                      ELSE [dev[n] EXCEPT !.behavior = msgs[on].velocity]
           IN IF n \in PadNotes /\ painted # 0 THEN Painted(runs[painted], lit, n)
              ELSE lit]

\* --------------------------------------------------- APC mini mk2: Device
\* an open port
InPort == None + 1
OutPort == None + 2

\* the controls and the LED states the callers of the Device use
SetControls == {pad(2, 1), pad(3, 1), track_button(3), shift_button, fader(0)}
GetLedControls == {pad(2, 1), track_button(3), shift_button}
GetInputControls == {pad(2, 1), fader(0)}
ButtonBehaviors == {OFF, ON, BLINK}
PadLedValues ==
    {PadLedState(CallerAddr, PCT_100, 0, 0, 0),
     PadLedState(CallerAddr, PCT_100, 255, 68, 0),
     PadLedState(CallerAddr, PULSE_1_8, 255, 68, 0)}
ButtonLedValues == {ButtonLedState(CallerAddr, bh) : bh \in ButtonBehaviors}
\* the objects a caller passes for a control: a ButtonLedState for a fader
LedValuesFor(id) == IF is_pad(id) THEN PadLedValues ELSE ButtonLedValues

\* the fields of an object, its address left out
ValueOf(obj) == [f \in DOMAIN obj \ {"addr"} |-> obj[f]]

NoId == ControlID("Invalid", 0, 0)
NoObject == [kind |-> "none", obj |-> <<>>]
DLast(op, id, sent) == [op |-> op, id |-> id, sent |-> sent]

\* the keys of led_state_by_id in the order of their insertion: the pads, the
\* track and the scene buttons of __init__, then the keys set_led_state added
InitLedOrder ==
    [i \in 1..(PAD_COUNT + TRACK_BTN_COUNT + SCENE_BTN_COUNT) |->
        IF i <= PAD_COUNT THEN _from_midi_note(PAD_NOTE_START + i - 1).val
        ELSE IF i <= PAD_COUNT + TRACK_BTN_COUNT
        THEN _from_midi_note(TRACK_BTN_NOTE_START + i - PAD_COUNT - 1).val
        ELSE _from_midi_note(SCENE_BTN_NOTE_START + i - PAD_COUNT - TRACK_BTN_COUNT - 1).val]
AddedLedOrder == <<shift_button>> \o [i \in 1..FADER_COUNT |-> fader(i - 1)]
IsLedKey(leds, id) == id \in DOMAIN leds
led_items(leds) ==
    LET InLeds(id) == IsLedKey(leds, id) IN SelectSeq(InitLedOrder \o AddedLedOrder, InLeds)

InitLeds ==
    [id \in iter_pad_ids \cup (iter_button_ids \ {shift_button}) |->
        IF is_pad(id) THEN PadLedState(LedAddr(id), PCT_100, 0, 0, 0)
        ELSE ButtonLedState(LedAddr(id), OFF)]
InitInputs ==
    [id \in iter_pad_ids \cup iter_button_ids \cup iter_fader_ids |->
        IF is_fader(id) THEN FaderInputState(InputAddr(id), 0)
        ELSE ButtonInputState(InputAddr(id), FALSE, FALSE)]

\* a Device with no port and the LED states leds
DeviceWith(leds) ==
    /\ inport = None
    /\ outport = None
    /\ input_state_by_id = InitInputs
    /\ led_state_by_id = leds
    /\ device_led = [n \in PadNotes \cup ButtonNotes |-> UnsetLed]
    /\ held = NoObject
    /\ last_set = [id \in DOMAIN leds |-> ValueOf(leds[id])]
    /\ d_error = NoError
    /\ d_last = DLast("init", NoId, <<>>)
    /\ in_buffer = <<>>
    /\ yielded = <<>>

\* Device(): no port, every control at its default
InitDevice == DeviceWith(InitLeds)

\* the note-on messages connect() sends for the LED states in order
led_note_ons(leds, ids) ==
    LET msgs == [i \in DOMAIN ids |->
                    LET ctrl_id == ids[i]
                        led_state == leds[ctrl_id]
                    IN IF is_pad(ctrl_id)
                       THEN pad_note_on(_to_midi_note(ctrl_id).val, led_state)
                       ELSE IF is_button(ctrl_id)
                       THEN btn_note_on(_to_midi_note(ctrl_id).val, led_state)
                       ELSE SysEx(<<>>)]
        IsNoteOn(msg) == msg.type = "note_on"
    IN SelectSeq(msgs, IsNoteOn)

\* connect(): in_found and out_found tell whether mido lists a port of the
\* device.  time.sleep needs the module to run as __main__, which imports time.
connect(in_found, out_found) ==
    /\ d_error = NoError
    /\ inport = None /\ outport = None
    /\ inport' = IF in_found THEN InPort ELSE None
    /\ outport' = IF out_found THEN OutPort ELSE None
    /\ LET intro == MakeSysExMessage(SYSEX_MSG_INTRO, <<>>).val
           note_ons == led_note_ons(led_state_by_id, led_items(led_state_by_id))
           colors == pad_colors_sysex(led_state_by_id, 0, PAD_COUNT)
           sent == IF ~out_found THEN <<>>
                   ELSE IF colors.exc # "none" THEN <<intro>> \o note_ons
                   ELSE <<intro>> \o note_ons \o <<colors.val>>
       IN /\ d_last' = DLast("connect", NoId, sent)
          /\ device_led' = DeviceReceive(device_led, sent)
          /\ d_error' = IF ~out_found THEN Raised("AttributeError", 428)
                        ELSE IF colors.exc # "none" THEN Raised(colors.exc, 556)
                        ELSE IF ~run_as_main THEN Raised("NameError", 450)
                        ELSE NoError
    /\ UNCHANGED <<input_state_by_id, led_state_by_id, held, last_set, run_as_main>>
    /\ UNCHANGED <<in_buffer, yielded>>
    /\ UNCHANGED <<serverVars, clockVars, callVars, appVars>>

disconnect ==
    /\ d_error = NoError
    /\ outport' = None
    /\ inport' = None
    /\ d_last' = DLast("disconnect", NoId, <<>>)
    /\ UNCHANGED <<input_state_by_id, led_state_by_id, device_led, held, last_set,
                   d_error, run_as_main>>
    /\ in_buffer' = <<>> /\ UNCHANGED yielded
    /\ UNCHANGED <<serverVars, clockVars, callVars, appVars>>

KindOf(id) ==
    IF is_pad(id) THEN "PadLedState" ELSE "ButtonLedState"

get_input_state(ctrl_id) ==
    /\ d_error = NoError
    /\ IF ctrl_id \in DOMAIN input_state_by_id
       THEN /\ held' = [kind |-> IF is_fader(ctrl_id) THEN "FaderInputState"
                                 ELSE "ButtonInputState",
                        obj |-> copy(input_state_by_id[ctrl_id], CallerAddr)]
            /\ UNCHANGED d_error
       ELSE /\ d_error' = Raised("KeyError", 514)
            /\ UNCHANGED held
    /\ d_last' = DLast("get_input_state", NoId, <<>>)
    /\ UNCHANGED <<inport, outport, input_state_by_id, led_state_by_id, device_led,
                   last_set, run_as_main>>
    /\ UNCHANGED <<in_buffer, yielded>>
    /\ UNCHANGED <<serverVars, clockVars, callVars, appVars>>

get_led_state(ctrl_id) ==
    /\ d_error = NoError
    /\ IF ctrl_id \in DOMAIN led_state_by_id
       THEN /\ held' = [kind |-> KindOf(ctrl_id),
                        obj |-> copy(led_state_by_id[ctrl_id], CallerAddr)]
            /\ UNCHANGED d_error
       ELSE /\ d_error' = Raised("KeyError", 517)
            /\ UNCHANGED held
    /\ d_last' = DLast("get_led_state", ctrl_id, <<>>)
    /\ UNCHANGED <<inport, outport, input_state_by_id, led_state_by_id, device_led,
                   last_set, run_as_main>>
    /\ UNCHANGED <<in_buffer, yielded>>
    /\ UNCHANGED <<serverVars, clockVars, callVars, appVars>>

\* set_led_state(ctrl_id, led_state), the caller keeping led_state
set_led_state(ctrl_id, led_state) ==
    /\ d_error = NoError
    /\ held' = [kind |-> KindOf(ctrl_id), obj |-> led_state]
    /\ LET leds == [id \in DOMAIN led_state_by_id \cup {ctrl_id} |->
                       IF id = ctrl_id THEN copy(led_state, LedAddr(ctrl_id))
                       ELSE led_state_by_id[id]]
           note == _to_midi_note(ctrl_id)
           colors == pad_colors_sysex(leds, note.val, 1)
           sent == IF note.exc # "none" \/ outport = None THEN <<>>
                   ELSE IF is_pad(ctrl_id)
                   THEN IF colors.exc # "none" THEN <<pad_note_on(note.val, led_state)>>
                        ELSE <<pad_note_on(note.val, led_state), colors.val>>
                   ELSE IF is_button(ctrl_id) THEN <<btn_note_on(note.val, led_state)>>
                   ELSE <<>>
       IN /\ led_state_by_id' = leds
          /\ last_set' = [id \in DOMAIN leds |->
                              IF id = ctrl_id THEN ValueOf(led_state) ELSE last_set[id]]
          /\ d_last' = DLast("set_led_state", ctrl_id, sent)
          /\ device_led' = DeviceReceive(device_led, sent)
          /\ d_error' = IF note.exc # "none" THEN Raised(note.exc, 306)
                        ELSE IF outport = None
                        THEN Raised("AttributeError", IF is_pad(ctrl_id) THEN 543 ELSE 551)
                        ELSE IF is_pad(ctrl_id) /\ colors.exc # "none"
                        THEN Raised(colors.exc, 556)
                        ELSE NoError
    /\ UNCHANGED <<inport, outport, input_state_by_id, run_as_main>>
    /\ UNCHANGED <<in_buffer, yielded>>
    /\ UNCHANGED <<serverVars, clockVars, callVars, appVars>>

\* the values the caller can give the object it holds
ValuesOfKind(kind) ==
    IF kind = "PadLedState" THEN PadLedValues
    ELSE IF kind = "ButtonLedState" THEN ButtonLedValues
    ELSE IF kind = "ButtonInputState"
    THEN {ButtonInputState(CallerAddr, d, FALSE) : d \in BOOLEAN}
    ELSE IF kind = "FaderInputState" THEN {FaderInputState(CallerAddr, p) : p \in {0, 127}}
    ELSE {}
\* a write to the fields of the object at addr reaches every reference to it
Written(objs, addr, value) ==
    [id \in DOMAIN objs |->
        IF objs[id].addr = addr
        THEN [f \in DOMAIN objs[id] |-> IF f = "addr" THEN addr ELSE value[f]]
        ELSE objs[id]]

\* the caller assigns to the fields of the object it holds
caller_writes(value) ==
    /\ d_error = NoError
    /\ held.kind # "none"
    /\ ValueOf(value) # ValueOf(held.obj)
    /\ held' = [held EXCEPT !.obj = [value EXCEPT !.addr = held.obj.addr]]
    /\ led_state_by_id' = Written(led_state_by_id, held.obj.addr, value)
    /\ input_state_by_id' = Written(input_state_by_id, held.obj.addr, value)
    /\ d_last' = DLast("caller_writes", NoId, <<>>)
    /\ UNCHANGED <<inport, outport, device_led, last_set, d_error, run_as_main>>
    /\ UNCHANGED <<in_buffer, yielded>>
    /\ UNCHANGED <<serverVars, clockVars, callVars, appVars>>

\* ------------------------------------------------ APC mini mk2: tick()
\* the bound of the messages buffered at inport
MaxBuffered == 2

\* a mido message from the device
InMsg(type, note, control, value, data) ==
    [type |-> type, note |-> note, control |-> control, value |-> value, data |-> data]
NoteOnIn(note) == InMsg("note_on", note, 0, 0, <<>>)
NoteOffIn(note) == InMsg("note_off", note, 0, 0, <<>>)
ControlChangeIn(control, value) == InMsg("control_change", 0, control, value, <<>>)
SysExIn(data) == InMsg("sysex", 0, 0, 0, data)
\* the introduction the device answers with: the positions of its faders
IntroAck(positions) ==
    SysExIn(<<SYSEX_MANUFACTURER_ID, SYSEX_DEVICE_ID, SYSEX_PRODUCT_MODEL_ID,
              SYSEX_MSG_INTRO_ACK, 0, FADER_COUNT>> \o positions)

\* Event: pos is None but for a fader
NoPos == None - 1
Event(ty, ctrl_id, pos) == [ty |-> ty, ctrl_id |-> ctrl_id, pos |-> pos]

\* update_prev_state() of ButtonInputState and of FaderInputState
update_prev_state(input_state) ==
    IF "is_down" \in DOMAIN input_state
    THEN [input_state EXCEPT !.was_down = input_state.is_down]
    ELSE input_state

\* the branches of tick() for note_on and note_off
note_message(st, msg, is_down, ty) ==
    LET ctrl_id == _from_midi_note(msg.note) IN
    IF ctrl_id.exc # "none" THEN [st EXCEPT !.error = Raised(ctrl_id.exc, 295)]
    ELSE IF ctrl_id.val \notin DOMAIN st.inputs
    THEN [st EXCEPT !.error = Raised("KeyError", IF is_down THEN 480 ELSE 487)]
    ELSE [st EXCEPT !.inputs[ctrl_id.val].is_down = is_down,
                    !.events = Append(@, Event(ty, ctrl_id.val, NoPos))]

\* the branch of tick() for sysex: the faders seeded from an introduction
sysex_message(st, msg) ==
    IF Len(msg.data) < 4 THEN [st EXCEPT !.error = Raised("IndexError", 494)]
    ELSE IF msg.data[4] # SYSEX_MSG_INTRO_ACK THEN st
    ELSE IF Len(msg.data) < FADER_COUNT + 6 THEN [st EXCEPT !.error = Raised("IndexError", 499)]
    ELSE [st EXCEPT !.inputs =
             [id \in DOMAIN st.inputs |->
                 IF is_fader(id) /\ id \in iter_fader_ids
                 THEN [st.inputs[id] EXCEPT !.pos = msg.data[id.col + 7]]
                 ELSE st.inputs[id]]]

\* the branch of tick() for control_change
control_change_message(st, msg) ==
    LET fader_id == _from_midi_control(msg.control) IN
    IF fader_id.exc # "none" THEN [st EXCEPT !.error = Raised(fader_id.exc, 312)]
    ELSE [st EXCEPT !.inputs[fader_id.val].pos = msg.value,
                    !.events = Append(@, Event("Moved", fader_id.val, msg.value))]

\* one message polled and handled by tick()
tick_message(st, msg) ==
    IF msg.type = "note_on" THEN note_message(st, msg, TRUE, "Pressed")
    ELSE IF msg.type = "note_off" THEN note_message(st, msg, FALSE, "Released")
    ELSE IF msg.type = "sysex" THEN sysex_message(st, msg)
    ELSE IF msg.type = "control_change" THEN control_change_message(st, msg)
    ELSE st

\* the loop of tick() over the messages buffered, up to an exception
RECURSIVE tick_loop(_, _)
tick_loop(msgs, st) ==
    IF msgs = <<>> \/ st.error # NoError THEN st
    ELSE tick_loop(Tail(msgs), [tick_message(st, Head(msgs)) EXCEPT !.polled = @ + 1])

\* the caller iterates over tick() to its end
Device_tick ==
    /\ d_error = NoError
    /\ IF inport = None
       THEN /\ yielded' = <<>>
            /\ UNCHANGED <<input_state_by_id, in_buffer, d_error>>
       ELSE LET prev == [id \in DOMAIN input_state_by_id |->
                            update_prev_state(input_state_by_id[id])]
                run == tick_loop(in_buffer, [inputs |-> prev, events |-> <<>>,
                                             error |-> NoError, polled |-> 0])
            IN /\ input_state_by_id' = run.inputs
               /\ yielded' = run.events
               /\ in_buffer' = SubSeq(in_buffer, run.polled + 1, Len(in_buffer))
               /\ d_error' = run.error
    /\ d_last' = DLast("tick", NoId, <<>>)
    /\ UNCHANGED <<inport, outport, led_state_by_id, device_led, held, last_set,
                   run_as_main>>
    /\ UNCHANGED <<serverVars, clockVars, callVars, appVars>>

\* the messages the device sends: pad (2, 1) pressed and released, a note and
\* a controller that belong to no control, fader 0 moved, the introduction
\* and a message of another type
DeviceMessages ==
    {NoteOnIn(10), NoteOffIn(10), NoteOnIn(64),
     ControlChangeIn(48, 127), ControlChangeIn(57, 5),
     IntroAck(<<0, 64, 0, 0, 0, 0, 0, 0, 0>>), InMsg("pitchwheel", 0, 0, 0, <<>>)}

\* the device sends a message, which waits at inport
Receive(msg) ==
    /\ d_error = NoError
    /\ inport # None
    /\ Len(in_buffer) < MaxBuffered
    /\ in_buffer' = Append(in_buffer, msg)
    /\ d_last' = DLast("receive", NoId, <<>>)
    /\ UNCHANGED <<inport, outport, input_state_by_id, led_state_by_id, device_led,
                   held, last_set, d_error, run_as_main, yielded>>
    /\ UNCHANGED <<serverVars, clockVars, callVars, appVars>>

\* ------------------------------------------- calls of the pure functions
\* the bound of the stretch of pads given colors of their own
WindowLen == 4

NoCall == [fn |-> "none", args |-> <<>>]
NoResult == [exc |-> "pending", val |-> <<>>]
Call(fn, args) == [fn |-> fn, args |-> args]

\* the inputs: every 14-bit integer and the first integer that is too large;
\* the palette colors and a grid of others; every MIDI note and controller
\* number; every ControlID of the device
SplitInputs == 0..INT14_LIMIT
ChannelSamples == {0, 39, 127, 255}
RgbInputs ==
    {<<PaletteR(i), PaletteG(i), PaletteB(i)>> : i \in 0..(Len(PadColorPalette) - 1)}
        \cup (ChannelSamples \X ChannelSamples \X ChannelSamples)
MidiNumbers == 0..127
ValidControlIDs == iter_pad_ids \cup iter_button_ids \cup iter_fader_ids
\* the pad colors of a bulk sync: WindowLen neighbouring pads with colors of
\* their own, at the start, across the first two rows or at the end
SyncColors == {<<0, 0, 0>>, <<255, 0, 0>>, <<255, 200, 0>>, <<255, 200, 129>>}
WindowStarts == {0, 6, PAD_COUNT - WindowLen}
Painted_leds(first, colors) ==
    [id \in DOMAIN InitLeds |->
        IF is_pad(id) /\ _to_midi_note(id).val \in first..(first + WindowLen - 1)
        THEN LET c == colors[_to_midi_note(id).val - first + 1]
             IN PadLedState(LedAddr(id), PCT_100, c[1], c[2], c[3])
        ELSE InitLeds[id]]
PaintedLeds ==
    {Painted_leds(first, colors) : first \in WindowStarts,
                                   colors \in [1..WindowLen -> SyncColors]}
\* every second pad lit, so that no pad has the color of the pad before it
StripedLeds ==
    [id \in DOMAIN InitLeds |->
        IF is_pad(id) /\ _to_midi_note(id).val % 2 = 0
        THEN PadLedState(LedAddr(id), PCT_100, 255, 200, 129)
        ELSE InitLeds[id]]

PureCalls ==
    {Call("split_int_for_midi", <<x>>) : x \in SplitInputs}
        \cup {Call("rgb_to_pad_palette_index", c) : c \in RgbInputs}
        \cup {Call("_from_midi_note", <<n>>) : n \in MidiNumbers}
        \cup {Call("_from_midi_control", <<n>>) : n \in MidiNumbers}
        \cup {Call("_to_midi_note", <<id>>) : id \in ValidControlIDs}
        \cup {Call("_to_midi_control", <<id>>) : id \in ValidControlIDs}
\* the positions and the scalers get_beat_info is called on
BeatPositions ==
    {Rat(-3, 2), RInt(-1), Rat(-1, 2), RInt(0), Rat(1, 4), Rat(3, 2), RInt(2)}
BeatScalers == {Rat(1, 2), RInt(1), RInt(2)}
BeatCalls ==
    {Call("get_beat_info", <<prev, now, scaler>>) :
        prev \in BeatPositions, now \in BeatPositions, scaler \in BeatScalers}
SyncCall == Call("_send_pad_colors_by_sysex", <<0, PAD_COUNT>>)
\* a bulk sync of a stretch of pads, and of one pad as set_led_state makes it
PartSyncCalls ==
    {Call("_send_pad_colors_by_sysex", <<6, 3>>),
     Call("_send_pad_colors_by_sysex", <<7, 1>>)}

NoCalls == fn_call = NoCall /\ fn_result = NoResult

Returns(fn, result) ==
    /\ fn_call.fn = fn
    /\ fn_result = NoResult
    /\ fn_result' = result
    /\ UNCHANGED fn_call
    /\ UNCHANGED <<serverVars, clockVars, deviceVars, appVars>>

call_split_int_for_midi ==
    Returns("split_int_for_midi", split_int_for_midi(fn_call.args[1]))
call_rgb_to_pad_palette_index ==
    Returns("rgb_to_pad_palette_index",
            Ok(rgb_to_pad_palette_index(fn_call.args[1], fn_call.args[2], fn_call.args[3])))
call_get_beat_info ==
    Returns("get_beat_info",
            Ok(get_beat_info(fn_call.args[1], fn_call.args[2], fn_call.args[3])))
call_from_midi_note == Returns("_from_midi_note", _from_midi_note(fn_call.args[1]))
call_to_midi_note == Returns("_to_midi_note", _to_midi_note(fn_call.args[1]))
call_from_midi_control ==
    Returns("_from_midi_control", _from_midi_control(fn_call.args[1]))
call_to_midi_control == Returns("_to_midi_control", _to_midi_control(fn_call.args[1]))
\* the message a bulk sync of the pad colors held builds
call_send_pad_colors_by_sysex ==
    Returns("_send_pad_colors_by_sysex",
            pad_colors_sysex(led_state_by_id, fn_call.args[1], fn_call.args[2]))

\* ------------------------------------------------------- specifications
\* no Device constructed: nothing in os2l.py or metronome.py makes one, and the
\* pure functions of apc_mini_mk2 need none
NoDevice ==
    /\ inport = None
    /\ outport = None
    /\ input_state_by_id = <<>>
    /\ led_state_by_id = <<>>
    /\ device_led = <<>>
    /\ held = NoObject
    /\ last_set = <<>>
    /\ d_error = NoError
    /\ d_last = DLast("init", NoId, <<>>)
    /\ in_buffer = <<>>
    /\ yielded = <<>>

\* main_loop not entered
NoLoop ==
    /\ app_pc = "none"
    /\ app_polled = <<>>
    /\ app_midi = <<>>
    /\ app_log = <<>>

\* the server and the clock as constructed; the pure functions not called
Init == InitServer /\ InitClock /\ NoDevice /\ run_as_main = TRUE /\ NoCalls /\ NoLoop

NextServer ==
    \/ start
    \/ shutdown
    \/ restart
    \/ poll
    \/ \E c \in ConnIds : PeerConnect(c)
    \/ \E c \in ConnIds, f \in PeerFrames : PeerBeginFrame(c, f)
    \/ \E c \in ConnIds, n \in 1..4 : PeerDeliver(c, n)
    \/ \E c \in ConnIds : PeerClose(c)

ServerSpec == Init /\ [][NextServer]_vars

NextClock ==
    \/ TimePasses /\ UNCHANGED appVars
    \/ tick /\ UNCHANGED appVars
    \/ on_tap /\ UNCHANGED appVars
    \/ on_one /\ UNCHANGED appVars
    \/ \E pos \in SyncPositions, bpm \in SyncBpms :
           sync_beats(pos, Rat(bpm, 60)) /\ UNCHANGED appVars

ClockSpec == Init /\ [][NextClock]_vars

\* the Device and its caller, as __main__ or imported
InitDeviceSpec ==
    /\ InitServer /\ InitClock /\ InitDevice /\ run_as_main \in BOOLEAN
    /\ NoCalls /\ NoLoop

NextDevice ==
    \/ \E in_found, out_found \in BOOLEAN : connect(in_found, out_found)
    \/ disconnect
    \/ \E id \in GetInputControls : get_input_state(id)
    \/ \E id \in GetLedControls : get_led_state(id)
    \/ \E id \in SetControls : \E led_state \in LedValuesFor(id) :
           set_led_state(id, led_state)
    \/ \E value \in ValuesOfKind(held.kind) : caller_writes(value)

DeviceSpec == InitDeviceSpec /\ [][NextDevice]_vars

\* the Device, the messages of the APC mini mk2 and the caller of tick()
NextInput ==
    \/ \E in_found, out_found \in BOOLEAN : connect(in_found, out_found)
    \/ disconnect
    \/ \E msg \in DeviceMessages : Receive(msg)
    \/ Device_tick

InputSpec == InitDeviceSpec /\ [][NextInput]_vars

\* --------------------------------------------------- BuskingApp.main_loop
\* The loop of main_loop with the tick() of busk() as on_tick. What poll() and
\* midi_input.tick() yield in an iteration is an input of the loop; the steps
\* on the animators, the LEDs and the DMX controller are recorded in app_log.

\* the order with the control surface polled before the metronome ticks
LoopOrder_midi_before_metronome ==
    <<"poll", "beat_events", "midi_tick", "midi_events", "update_leds",
      "metronome_tick", "animators", "flush", "keys", "sleep">>

\* the statements of an iteration, in program order
LoopOrder ==
    <<"poll", "beat_events", "metronome_tick", "midi_tick", "midi_events",
      "update_leds", "animators", "flush", "keys", "sleep">>

StepAfter(pc) ==
    LET i == CHOOSE k \in 1..Len(LoopOrder) : LoopOrder[k] = pc
    IN LoopOrder[(i % Len(LoopOrder)) + 1]

\* what one poll() of the server yields
AppPolls ==
    {<<>>,
     <<BeatEvent(TRUE, 2, 90, 1)>>,
     <<BeatEvent(TRUE, 0, 120, 1), BeatEvent(TRUE, 2, 90, 1)>>,
     <<CmdEvent(1, 0)>>,
     <<BtnEvent("name", None, TRUE), BeatEvent(TRUE, 0, 120, 1)>>}

\* what one tick() of the Device yields
AppMidi ==
    {<<>>,
     <<Event("Pressed", scene_button(0), NoPos)>>,
     <<Event("Pressed", scene_button(1), NoPos)>>,
     <<Event("Released", scene_button(1), NoPos)>>,
     <<Event("Pressed", pad(2, 1), NoPos)>>}

AppKeys == {"", "x", "r"}

InitLoop ==
    /\ app_pc = LoopOrder[1]
    /\ app_polled = <<>>
    /\ app_midi = <<>>
    /\ app_log = <<>>

Running(pc) == app_pc = pc /\ m_error = "none"
Logged(step) == app_log' = Append(app_log, step)
Proceed == app_pc' = StepAfter(app_pc)

\* for evt in self.os2l_server.poll()
main_loop_poll ==
    /\ Running("poll")
    /\ \E evts \in AppPolls : app_polled' = evts
    /\ Logged("os2l_server.poll")
    /\ Proceed
    /\ UNCHANGED app_midi
    /\ UNCHANGED <<serverVars, clockVars, deviceVars, callVars>>

\* the body of the loop with the bpm of the event taken for beats per second
main_loop_event_bpm_as_bps ==
    /\ Running("beat_events")
    /\ app_polled # <<>>
    /\ LET evt == Head(app_polled) IN
       IF evt.type = "BeatEvent"
       THEN /\ sync_beats(evt.pos, RInt(evt.bpm))
            /\ Logged("metronome.sync_beats")
       ELSE /\ Logged("print")
            /\ UNCHANGED <<serverVars, clockVars, deviceVars, callVars>>
    /\ app_polled' = Tail(app_polled)
    /\ UNCHANGED <<app_pc, app_midi>>

\* the body of the loop over the events of poll()
main_loop_event ==
    /\ Running("beat_events")
    /\ app_polled # <<>>
    /\ LET evt == Head(app_polled) IN
       IF evt.type = "BeatEvent"
       THEN /\ sync_beats(evt.pos, Rat(evt.bpm, 60))
            /\ Logged("metronome.sync_beats")
       ELSE /\ Logged("print")
            /\ UNCHANGED <<serverVars, clockVars, deviceVars, callVars>>
    /\ app_polled' = Tail(app_polled)
    /\ UNCHANGED <<app_pc, app_midi>>

main_loop_events_end ==
    /\ Running("beat_events")
    /\ app_polled = <<>>
    /\ Proceed
    /\ UNCHANGED <<app_polled, app_midi, app_log>>
    /\ UNCHANGED <<serverVars, clockVars, deviceVars, callVars>>

\* self.metronome.tick()
main_loop_metronome_tick ==
    /\ Running("metronome_tick")
    /\ tick
    /\ Logged("metronome.tick")
    /\ Proceed
    /\ UNCHANGED <<app_polled, app_midi>>

\* on_tick(): for evt in midi_input.tick()
on_tick_midi ==
    /\ Running("midi_tick")
    /\ \E evts \in AppMidi : app_midi' = evts
    /\ Logged("midi_input.tick")
    /\ Proceed
    /\ UNCHANGED app_polled
    /\ UNCHANGED <<serverVars, clockVars, deviceVars, callVars>>

\* on_tick(): the body of the loop over the events of midi_input.tick()
on_tick_event ==
    /\ Running("midi_events")
    /\ app_midi # <<>>
    /\ LET evt == Head(app_midi) IN
       IF evt.ctrl_id.ty = "SceneButton" /\ evt.ty = "Pressed" /\ evt.ctrl_id.row = 0
       THEN /\ on_one
            /\ Logged("metronome.on_one")
       ELSE IF /\ evt.ctrl_id.ty = "SceneButton"
               /\ evt.ty = "Pressed"
               /\ 1 <= evt.ctrl_id.row /\ evt.ctrl_id.row <= 3
       THEN /\ on_tap
            /\ Logged("metronome.on_tap")
       ELSE /\ Logged(IF evt.ctrl_id.ty \in {"SceneButton", "TrackButton"}
                      THEN "button" ELSE "pad_matrix.on_midi_event")
            /\ UNCHANGED <<serverVars, clockVars, deviceVars, callVars>>
    /\ app_midi' = Tail(app_midi)
    /\ UNCHANGED <<app_pc, app_polled>>

on_tick_events_end ==
    /\ Running("midi_events")
    /\ app_midi = <<>>
    /\ Proceed
    /\ UNCHANGED <<app_polled, app_midi, app_log>>
    /\ UNCHANGED <<serverVars, clockVars, deviceVars, callVars>>

\* on_tick(): pad_matrix.update_led_states(), tick_beat_leds(), the faders
on_tick_leds ==
    /\ Running("update_leds")
    /\ Logged("update_led_states")
    /\ Proceed
    /\ UNCHANGED <<app_polled, app_midi>>
    /\ UNCHANGED <<serverVars, clockVars, deviceVars, callVars>>

\* on_tick(): busking.tick(app.metronome), busking.update_dmx(app.dmx_ctrl)
on_tick_animators ==
    /\ Running("animators")
    /\ Logged("busking.tick")
    /\ Proceed
    /\ UNCHANGED <<app_polled, app_midi>>
    /\ UNCHANGED <<serverVars, clockVars, deviceVars, callVars>>

\* self.dmx_ctrl.flush()
main_loop_flush ==
    /\ Running("flush")
    /\ Logged("dmx_ctrl.flush")
    /\ Proceed
    /\ UNCHANGED <<app_polled, app_midi>>
    /\ UNCHANGED <<serverVars, clockVars, deviceVars, callVars>>

\* msvcrt.kbhit(): no key, 'x' leaves the loop, 'r' restarts the server
main_loop_keys ==
    /\ Running("keys")
    /\ \E ch \in AppKeys :
         /\ app_pc' = IF ch = "x" THEN "exited" ELSE StepAfter(app_pc)
         /\ app_log' = IF ch = "r" THEN Append(app_log, "os2l_server.restart")
                       ELSE app_log
    /\ UNCHANGED <<app_polled, app_midi>>
    /\ UNCHANGED <<serverVars, clockVars, deviceVars, callVars>>

\* time.sleep(1.0 / self.ticks_per_sec); the next iteration begins
main_loop_sleep ==
    /\ Running("sleep")
    /\ clock < MaxTime
    /\ clock' = clock + 1
    /\ app_log' = <<>>
    /\ Proceed
    /\ UNCHANGED <<app_polled, app_midi>>
    /\ UNCHANGED <<beats_per_sec, sync_pos, sync_secs, prev_pos, now_pos, now_secs,
                   delta_secs, tap_queue, m_error, m_last>>
    /\ UNCHANGED <<serverVars, deviceVars, callVars>>

InitAppSpec == InitServer /\ InitClock /\ NoDevice /\ run_as_main = FALSE /\ NoCalls /\ InitLoop

NextApp ==
    \/ main_loop_poll
    \/ main_loop_event
    \/ main_loop_events_end
    \/ main_loop_metronome_tick
    \/ on_tick_midi
    \/ on_tick_event
    \/ on_tick_events_end
    \/ on_tick_leds
    \/ on_tick_animators
    \/ main_loop_flush
    \/ main_loop_keys
    \/ main_loop_sleep

AppSpec == InitAppSpec /\ [][NextApp]_vars

\* one call of a pure function on one of its inputs
InitCallSpec ==
    /\ InitServer /\ InitClock /\ run_as_main = TRUE /\ NoLoop
    /\ fn_result = NoResult
    /\ \/ fn_call \in PureCalls /\ NoDevice
       \/ fn_call \in BeatCalls /\ NoDevice
       \/ fn_call \in {SyncCall} \cup PartSyncCalls
             /\ \E leds \in PaintedLeds \cup {StripedLeds} : DeviceWith(leds)

NextCall ==
    \/ call_split_int_for_midi
    \/ call_get_beat_info
    \/ call_rgb_to_pad_palette_index
    \/ call_from_midi_note
    \/ call_to_midi_note
    \/ call_from_midi_control
    \/ call_to_midi_control
    \/ call_send_pad_colors_by_sysex

CallSpec == InitCallSpec /\ [][NextCall]_vars

\* ======================================================= Os2lServer claims
\* What the wire protocol assigns to a frame (spec.md, section 6).
KnownFrames == {Frame(k, a) : k \in {"n", "c", "b"}, a \in ArgChars}
UnknownFrames == {Frame("u", a) : a \in ArgChars}
EventOf(f) ==
    CASE f[2] = "n" -> [type |-> "BtnEvent", name |-> "name", page |-> None,
                        is_on |-> (f[3] = "1")]
      [] f[2] = "c" -> [type |-> "CmdEvent", idnum |-> (IF f[3] = "1" THEN 1 ELSE 0),
                        param |-> 0]
      [] f[2] = "b" -> [type |-> "BeatEvent", change |-> TRUE,
                        pos |-> (IF f[3] = "1" THEN 1 ELSE 0), bpm |-> 120,
                        strength |-> 1]
\* a text cut into pieces of four characters, and whether that cuts it into frames
Pieces(text) == [k \in 1..(Len(text) \div 4) |-> SubSeq(text, 4 * k - 3, 4 * k)]
IsFrames(text) == Len(text) % 4 = 0 /\ \A k \in 1..(Len(text) \div 4) : Pieces(text)[k] \in Frames
RECURSIVE EventsOf(_)
EventsOf(fs) ==
    IF fs = <<>> THEN <<>>
    ELSE IF Head(fs) \in KnownFrames THEN <<EventOf(Head(fs))>> \o EventsOf(Tail(fs))
    ELSE EventsOf(Tail(fs))
PolledClient == last.op = "poll" /\ last.read
DecodeFailed == error.line \in {145, 155}

\* C1: a frame split at any interior position over two reads: the poll that
\* reads the prefix yields no event and keeps the prefix in the buffer, the
\* poll that reads the rest yields exactly the frame's event and leaves the
\* buffer empty.
C1_SplitFrameDecodedOnce ==
    PolledClient =>
        \A f \in KnownFrames, i \in 1..3 :
            /\ (last.before = <<>> /\ last.data = SubSeq(f, 1, i))
                   => (last.events = <<>> /\ recv_buffer = SubSeq(f, 1, i))
            /\ (last.before = SubSeq(f, 1, i) /\ last.data = SubSeq(f, i + 1, 4))
                   => (last.events = <<EventOf(f)>> /\ recv_buffer = <<>>)

C1_Witness ==
    /\ PolledClient
    /\ last.before = <<"{", "b">>
    /\ last.data = <<"1", "}">>
    /\ last.events = <<EventOf(Frame("b", "1"))>>
    /\ recv_buffer = <<>>

\* C2: a frame with an unrecognized evt that is followed by complete frames
\* yields no event, is removed from the buffer and does not make the decoding
\* fail; the frames after it yield their events in stream order.
C2_UnknownEvtSkipped ==
    LET text == last.before \o last.data IN
    (PolledClient /\ IsFrames(text) /\ Len(text) > 4 /\ Pieces(text)[1] \in UnknownFrames)
        => /\ last.events = EventsOf(Tail(Pieces(text)))
           /\ recv_buffer = <<>>
           /\ ~DecodeFailed

C2_Witness ==
    /\ PolledClient
    /\ last.before = <<>>
    /\ last.data = Frame("u", "0") \o Frame("b", "1") \o Frame("c", "0")
    /\ last.events = <<EventOf(Frame("b", "1")), EventOf(Frame("c", "0"))>>
    /\ recv_buffer = <<>>
    /\ error = NoError

\* C3: a read of zero bytes closes and deregisters the client, clears the
\* receive buffer and leaves the server listening, with no client held.
C3_ZeroReadDropsClient ==
    (PolledClient /\ last.data = <<>>)
        => /\ client_socket = None
           /\ client_addr = None
           /\ selector.keys = {LSOCK}
           /\ recv_buffer = <<>>
           /\ Started

\* C4: once the zero-length read of the connected peer has happened, a poll
\* that finds a new connection waiting accepts it and does not fail.
PeerGone ==
    \E c \in ConnIds :
        /\ conn[c].eof_read
        /\ \A d \in ConnIds : d > c => conn[d].state \in {"unused", "pending"}
C4_ReconnectAccepted ==
    [][(last'.op = "poll" /\ PeerGone /\ backlog # <<>>)
          => (error' = NoError /\ client_socket' = Head(backlog))]_vars

\* C5: the server never holds more than one client, and a poll that finds a
\* connection waiting while a client is connected (and silent) leaves the
\* client, the buffer and the sockets as they were, and does not fail.
C5_SecondConnectionIgnored ==
    /\ [](Cardinality(selector.keys \ {LSOCK}) <= 1)
    /\ [][(last'.op = "poll" /\ client_socket # None /\ ready_keys = {LSOCK})
             => /\ error' = NoError
                /\ UNCHANGED <<client_socket, client_addr, recv_buffer, selector,
                               listen_socket>>]_vars

\* C6: after restart() the server listens, holds no client and has an empty
\* receive buffer, whatever the buffer held before.
C6_RestartClearsBuffer ==
    last.op = "restart"
        => /\ Started
           /\ client_socket = None
           /\ client_addr = None
           /\ recv_buffer = <<>>


\* ========================================================= Metronome claims
\* a step that is one call of tick() or of on_tap()
TickStep == m_last'.op = "tick" /\ clock' = clock
TapStep == m_last'.op = "on_tap" /\ tap_queue' # tap_queue
\* x = sp + bps * dt / UnitsPerSec, over the integers
IsPositionAt(x, sp, bps, dt) ==
    x[1] * sp[2] * bps[2] * UnitsPerSec
        = sp[1] * x[2] * bps[2] * UnitsPerSec + bps[1] * dt * x[2] * sp[2]

\* C7: after every tick(), now_pos = sync_pos + beats_per_sec * (now_secs -
\* sync_secs) and prev_pos is the now_pos held just before the call.
C7_AdvanceRecomputesPosition ==
    [][TickStep
          => /\ IsPositionAt(now_pos', sync_pos', beats_per_sec', now_secs' - sync_secs')
             /\ now_secs' = clock
             /\ prev_pos' = now_pos]_vars

C7_Witness ==
    /\ m_last.op = "tick"
    /\ tap_queue # <<>>
    /\ sync_pos # RInt(0)
    /\ beats_per_sec # RInt(1)
    /\ now_secs > sync_secs
    /\ prev_pos # now_pos

\* C8: a tick() with no re-sync (sync_beats, on_one, a syncing on_tap) since
\* the tick() before it never moves now_pos back, and leaves prev_pos <= now_pos.
C8_PositionNonDecreasing ==
    [][(TickStep /\ ~m_last.resynced)
          => (RLe(now_pos, now_pos') /\ RLe(prev_pos', now_pos'))]_vars

C8_Witness ==
    /\ m_last.op = "tick"
    /\ delta_secs > 0
    /\ sync_secs < now_secs - delta_secs
    /\ beats_per_sec # RInt(1)
    /\ RLt(prev_pos, now_pos)

\* C9: on_tap() never fails: whenever the tap queue is full its first and
\* last instants differ, so the tempo is defined.
C9_TapTempoNeverFails ==
    /\ m_error = "none"
    /\ Len(tap_queue) >= tap_queue_max_len
           => tap_queue[1] # tap_queue[Len(tap_queue)]

\* C10: a tap that leaves fewer than 4 taps in the queue leaves the tempo
\* unchanged, and a tap that completes 4 taps at equal intervals d < 1s, d > 0,
\* sets the tempo to exactly 1/d.
EqualGaps(q, d) == \A i \in 1..(Len(q) - 1) : q[i + 1] - q[i] = d
C10_FourTapsSetTempo ==
    [][TapStep
          => /\ Len(tap_queue') < 4 => beats_per_sec' = beats_per_sec
             /\ \A d \in 1..(UnitsPerSec - 1) :
                    (Len(tap_queue') = 4 /\ EqualGaps(tap_queue', d))
                        => beats_per_sec'[1] * d = UnitsPerSec * beats_per_sec'[2]]_vars

\* four taps 0.5s apart: 2 beats per second, 120 bpm
C10_Witness ==
    /\ m_last.op = "on_tap"
    /\ Len(tap_queue) = 4
    /\ \E d \in 1..UnitsPerSec : 2 * d = UnitsPerSec /\ EqualGaps(tap_queue, d)
    /\ beats_per_sec = <<2, 1>>
    /\ RMul(beats_per_sec, RInt(60)) = RInt(120)

\* a tap that re-syncs: the queue is full and the tempo is defined
TapResync == TapStep /\ Len(tap_queue') >= tap_queue_max_len /\ m_error' = "none"
IsInteger(x) == x[2] = 1

\* C11: a tap that re-syncs sets sync_pos to an integer beat, floor(now_pos)
\* when the fractional part of now_pos is at most 0.25 and floor(now_pos) + 1
\* otherwise, and sets sync_secs to the instant of the tap.
C11_TapSnapsToIntegerBeat ==
    [][TapResync
          => /\ IsInteger(sync_pos')
             /\ sync_pos' = IF RLe(RMod1(now_pos), Rat(1, 4))
                             THEN RInt(RFloor(now_pos))
                             ELSE RInt(RFloor(now_pos) + 1)
             /\ sync_secs' = now_secs]_vars

FloorMove == RFloor(now_pos) - RFloor(prev_pos)

C12_WitnessTwoBeats ==
    /\ m_last.op = "tick"
    /\ sync_secs < now_secs - delta_secs
    /\ FloorMove = 2
    /\ get_beat_info(prev_pos, now_pos, RInt(1)).this_frame


--------------------------------------------------------------------------------
\* The 14-bit codec: split_int_for_midi

\* bit i of x
BitOf(x, i) == (x \div (2 ^ i)) % 2

\* the calls of split_int_for_midi that returned, with x in [0, 16384)
SplitReturned ==
    /\ fn_call.fn = "split_int_for_midi"
    /\ fn_result # NoResult
    /\ fn_call.args[1] \in 0..(INT14_LIMIT - 1)

\* C13: for every x in [0, 16384), split_int_for_midi(x) returns two values in
\* 0..127, the first made of bits 7..13 of x and the second of bits 0..6, and
\* joining them as (high << 7) | low gives x back.
C13_SplitJoinRoundTrip ==
    SplitReturned =>
        LET x == fn_call.args[1] IN
        /\ fn_result.exc = "none"
        /\ Len(fn_result.val) = 2
        /\ \A k \in 1..2 : fn_result.val[k] \in 0..127
        /\ \A i \in 0..6 : /\ BitOf(fn_result.val[1], i) = BitOf(x, i + 7)
                           /\ BitOf(fn_result.val[2], i) = BitOf(x, i)
        /\ Join14(fn_result.val[1], fn_result.val[2]) = x

\* split_int_for_midi(300) returned (300 = 2 * 128 + 44: both halves non-zero)
C13_Witness ==
    /\ SplitReturned
    /\ fn_call.args[1] = 300
    /\ fn_result = Ok(<<2, 44>>)


--------------------------------------------------------------------------------
\* The nearest palette color: rgb_to_pad_palette_index

PaletteIndices == 0..(Len(PadColorPalette) - 1)
ColorOfEntry(i) == <<PaletteR(i), PaletteG(i), PaletteB(i)>>

\* the calls of rgb_to_pad_palette_index that returned
QuantizeReturned ==
    /\ fn_call.fn = "rgb_to_pad_palette_index"
    /\ fn_result # NoResult

\* the entries that hold the color of entry i
SameColorEntries(i) == {j \in PaletteIndices : ColorOfEntry(j) = ColorOfEntry(i)}

\* C14 as stated: quantizing the RGB of palette entry i returns i, for every
\* index i of the palette.
C14_Original ==
    QuantizeReturned =>
        \A i \in PaletteIndices :
            fn_call.args = ColorOfEntry(i) => fn_result = Ok(i)

\* C14: quantizing the RGB of palette entry i returns the lowest index whose
\* entry holds that same color: i itself unless an earlier entry repeats the
\* color, and then that earlier entry.
C14_ExactEntryReturnsFirstOfItsColor ==
    QuantizeReturned =>
        \A i \in PaletteIndices :
            fn_call.args = ColorOfEntry(i) =>
                /\ fn_result.exc = "none"
                /\ fn_result.val \in SameColorEntries(i)
                /\ \A j \in SameColorEntries(i) : fn_result.val <= j
                /\ SameColorEntries(i) = {i} => fn_result.val = i

\* the color of entry 70, which entry 2 holds as well, quantized to 2
C14_Witness ==
    /\ QuantizeReturned
    /\ fn_call.args = ColorOfEntry(70)
    /\ ColorOfEntry(70) = ColorOfEntry(2)
    /\ fn_result = Ok(2)
\* the color of entry 6, which no other entry holds, quantized to 6
C14_WitnessOwnIndex ==
    /\ QuantizeReturned
    /\ fn_call.args = ColorOfEntry(6)
    /\ SameColorEntries(6) = {6}
    /\ fn_result = Ok(6)


\* the squared Euclidean distance of two colors
SquaredDistance(c, d) ==
    (c[1] - d[1]) * (c[1] - d[1]) + (c[2] - d[2]) * (c[2] - d[2])
        + (c[3] - d[3]) * (c[3] - d[3])

\* the entries nearest to color c
NearestEntries(c) ==
    {i \in PaletteIndices :
        \A j \in PaletteIndices :
            SquaredDistance(ColorOfEntry(i), c) <= SquaredDistance(ColorOfEntry(j), c)}

\* C15: for every (r, g, b) with channels in 0..255, rgb_to_pad_palette_index
\* returns an index in 0..127, never the absent best_idx of line 117, and that index is the lowest one
\* among the palette entries of minimal squared Euclidean distance to (r, g, b).
C15_LowestNearestIndex ==
    (QuantizeReturned /\ \A k \in 1..3 : fn_call.args[k] \in 0..255) =>
        /\ fn_result.exc = "none"
        /\ fn_result.val # NoIndex
        /\ fn_result.val \in PaletteIndices
        /\ fn_result.val \in NearestEntries(fn_call.args)
        /\ \A i \in NearestEntries(fn_call.args) : fn_result.val <= i

\* (0, 127, 255) has entries 37 and 41 (of different colors) equally near and
\* was quantized to 37
C15_Witness ==
    /\ QuantizeReturned
    /\ fn_call.args = <<0, 127, 255>>
    /\ {37, 41} \subseteq NearestEntries(fn_call.args)
    /\ ColorOfEntry(37) # ColorOfEntry(41)
    /\ fn_result = Ok(37)


--------------------------------------------------------------------------------
\* The bulk color sync: _send_pad_colors_by_sysex

\* the bulk sync of all pads that returned
SyncReturned ==
    /\ fn_call = SyncCall
    /\ fn_result # NoResult

\* the color the shadow state holds for the pad of note n
ShadowColorOfNote(n) ==
    LET led == led_state_by_id[pad(n % PAD_COL_COUNT, n \div PAD_COL_COUNT)]
    IN <<led.r, led.g, led.b>>

\* the runs of the message sent, their channels joined
SentRuns == RunsOf(PayloadOf(fn_result.val))

\* the run list expanded: the colors of the runs covering note n
ExpandedAt(runs, n) ==
    {<<runs[i].r, runs[i].g, runs[i].b>> :
        i \in {k \in DOMAIN runs : runs[k].start <= n /\ n <= runs[k].end}}

\* the runs cover the notes first..final in order, with no gap and no overlap
CoversInOrder(runs, first, final) ==
    /\ Len(runs) >= 1
    /\ runs[1].start = first
    /\ runs[Len(runs)].end = final
    /\ \A i \in DOMAIN runs : runs[i].start <= runs[i].end
    /\ \A i \in 1..(Len(runs) - 1) : runs[i + 1].start = runs[i].end + 1

\* C16: whatever colors the 64 pads hold, the run list of the bulk color sync,
\* each run expanded over startNote..endNote with its 14-bit pairs joined,
\* gives back the color of every pad in note order; when all pads hold one
\* color the list is the single run (0, 63, color).
C16_RunListDecodesToPadColors ==
    SyncReturned =>
        /\ fn_result.exc = "none"
        /\ IsPadColors(fn_result.val)
        /\ CoversInOrder(SentRuns, PAD_NOTE_START, PAD_NOTE_END - 1)
        /\ \A n \in PAD_NOTE_START..(PAD_NOTE_END - 1) :
               ExpandedAt(SentRuns, n) = {ShadowColorOfNote(n)}
        /\ (\A n \in PAD_NOTE_START..(PAD_NOTE_END - 1) :
                ShadowColorOfNote(n) = ShadowColorOfNote(PAD_NOTE_START))
              => LET c == ShadowColorOfNote(PAD_NOTE_START)
                 IN SentRuns = <<[start |-> 0, end |-> 63,
                                  r |-> c[1], g |-> c[2], b |-> c[3]]>>

\* a bulk sync of pads 6..9 (the end of row 0 and the start of row 1) in the
\* colors red, red, orange, black before the black of the remaining pads,
\* sent as four runs with a channel above 127 among them
C16_Witness ==
    /\ SyncReturned
    /\ fn_result.exc = "none"
    /\ ShadowColorOfNote(5) = <<0, 0, 0>>
    /\ ShadowColorOfNote(6) = <<255, 0, 0>>
    /\ ShadowColorOfNote(7) = <<255, 0, 0>>
    /\ ShadowColorOfNote(8) = <<255, 200, 0>>
    /\ ShadowColorOfNote(9) = <<0, 0, 0>>
    /\ Len(SentRuns) = 4
    /\ SentRuns[2] = [start |-> 6, end |-> 7, r |-> 255, g |-> 0, b |-> 0]
\* a bulk sync of 64 pads of one color, sent as one run
C16_WitnessOneColor ==
    /\ SyncReturned
    /\ fn_result.exc = "none"
    /\ \A n \in PAD_NOTE_START..(PAD_NOTE_END - 1) : ShadowColorOfNote(n) = <<0, 0, 0>>
    /\ Len(SentRuns) = 1


--------------------------------------------------------------------------------
\* The identity mapping: ControlID and MIDI notes and controller numbers

\* the valid ControlIDs with a note, and those with a controller number
NoteControlIDs ==
    {pad(c, r) : c \in 0..7, r \in 0..7} \cup {track_button(c) : c \in 0..7}
        \cup {scene_button(r) : r \in 0..7} \cup {shift_button}
FaderControlIDs == {fader(c) : c \in 0..8}
\* the valid note and controller numbers
ValidNotes == (0..63) \cup (100..107) \cup (112..119) \cup {122}
ValidControllers == 48..56

\* a call of fn that returned
Returned(fn) == fn_call.fn = fn /\ fn_result # NoResult

\* C17: within each control class the mapping is one to one. The note of a
\* valid pad, track, scene or shift ControlID decodes to that ControlID and no
\* other valid ControlID has the same note; the controller number of a valid
\* fader decodes to that fader; a valid note or controller number decodes to a
\* valid ControlID whose note or controller number it is.
C17_IdentityMappingBijective ==
    /\ (Returned("_to_midi_note") /\ fn_call.args[1] \in NoteControlIDs) =>
           /\ fn_result.exc = "none"
           /\ fn_result.val \in ValidNotes
           /\ _from_midi_note(fn_result.val) = Ok(fn_call.args[1])
           /\ \A other \in NoteControlIDs :
                  other # fn_call.args[1] => _to_midi_note(other) # fn_result
    /\ (Returned("_to_midi_control") /\ fn_call.args[1] \in FaderControlIDs) =>
           /\ fn_result.exc = "none"
           /\ fn_result.val \in ValidControllers
           /\ _from_midi_control(fn_result.val) = Ok(fn_call.args[1])
           /\ \A other \in FaderControlIDs :
                  other # fn_call.args[1] => _to_midi_control(other) # fn_result
    /\ (Returned("_from_midi_note") /\ fn_call.args[1] \in ValidNotes) =>
           /\ fn_result.exc = "none"
           /\ fn_result.val \in NoteControlIDs
           /\ _to_midi_note(fn_result.val) = Ok(fn_call.args[1])
    /\ (Returned("_from_midi_control") /\ fn_call.args[1] \in ValidControllers) =>
           /\ fn_result.exc = "none"
           /\ fn_result.val \in FaderControlIDs
           /\ _to_midi_control(fn_result.val) = Ok(fn_call.args[1])

\* the note of the pad in column 3 of row 2 came back as 3 + 2 * 8
C17_Witness ==
    /\ Returned("_to_midi_note")
    /\ fn_call.args[1] = pad(3, 2)
    /\ fn_result = Ok(19)
\* note 117 decoded to the scene button of row 5, controller 56 to fader 8
C17_WitnessDecoded ==
    \/ /\ Returned("_from_midi_note")
       /\ fn_call.args[1] = 117
       /\ fn_result = Ok(scene_button(5))
    \/ /\ Returned("_from_midi_control")
       /\ fn_call.args[1] = 56
       /\ fn_result = Ok(fader(8))


--------------------------------------------------------------------------------
\* The shadow LED state: get_led_state and set_led_state

\* the controls with an LED: the pads and the buttons
LedControls == NoteControlIDs
\* the note of such a control
NoteOf(id) ==
    IF id.ty = "Pad" THEN id.col + 8 * id.row
    ELSE IF id.ty = "TrackButton" THEN 100 + id.col
    ELSE IF id.ty = "SceneButton" THEN 112 + id.row
    ELSE 122
\* the default LED state of a control
DefaultLed(id) ==
    IF id.ty = "Pad" THEN [behavior |-> PCT_100, r |-> 0, g |-> 0, b |-> 0]
    ELSE [behavior |-> OFF]

\* the state the messages sent so far carry for the LED of a control: the
\* behavior of the last note-on for its note and, for a pad, the color of the
\* last run over its note
CarriedFor(id) ==
    LET led == device_led[NoteOf(id)] IN
    IF id.ty = "Pad" THEN [behavior |-> led.behavior, r |-> led.r, g |-> led.g, b |-> led.b]
    ELSE [behavior |-> led.behavior]

\* get_led_state was the last call, set_led_state was the last call
GotLed == d_last.op = "get_led_state" /\ d_last.id \in LedControls
SetLed == d_last.op = "set_led_state" /\ d_last.id \in LedControls

\* the messages of a call are about the note of its control alone
SentFor(id) ==
    /\ d_last.sent # <<>>
    /\ \A i \in DOMAIN d_last.sent :
           IF d_last.sent[i].type = "note_on" THEN d_last.sent[i].note = NoteOf(id)
           ELSE /\ IsPadColors(d_last.sent[i])
                /\ \A k \in DOMAIN RunsOf(PayloadOf(d_last.sent[i])) :
                       /\ RunsOf(PayloadOf(d_last.sent[i]))[k].start = NoteOf(id)
                       /\ RunsOf(PayloadOf(d_last.sent[i]))[k].end = NoteOf(id)

\* C18 as stated: whatever calls were made, get_led_state on a pad or a button
\* returns the value last set for it, or the default, and that value is the
\* one the messages sent for the control carry; a set_led_state has sent the
\* messages of its control.
C18_Original ==
    /\ GotLed => /\ d_error = NoError
                 /\ ValueOf(held.obj) =
                        (IF d_last.id \in DOMAIN last_set THEN last_set[d_last.id]
                         ELSE DefaultLed(d_last.id))
    /\ SetLed => /\ SentFor(d_last.id)
                 /\ CarriedFor(d_last.id) = ValueOf(led_state_by_id[d_last.id])

\* C18: for every pad and every track or scene button, and for the shift
\* button once it was set (it has no state before), the shadow LED state is
\* the value of the last set_led_state for it, or the default, and
\* get_led_state returns it. While the output port is open, that value is also
\* the one carried by the messages sent for the control, and each
\* set_led_state sends the messages of its control in the same call; with no
\* output port set_led_state writes the shadow state and sends nothing.
C18_ShadowIsLastSetAndSent ==
    /\ DOMAIN last_set = DOMAIN led_state_by_id
    /\ \A id \in DOMAIN led_state_by_id : ValueOf(led_state_by_id[id]) = last_set[id]
    /\ \A id \in LedControls \ {shift_button} :
           /\ id \in DOMAIN led_state_by_id
           /\ last_set[id] = DefaultLed(id) \/ last_set[id] \in {ValueOf(v) : v \in LedValuesFor(id)}
    /\ GotLed =>
           IF d_last.id \in DOMAIN led_state_by_id
           THEN d_error = NoError /\ ValueOf(held.obj) = last_set[d_last.id]
           ELSE d_last.id = shift_button /\ d_error = Raised("KeyError", 517)
    /\ outport # None =>
           \A id \in LedControls \cap DOMAIN led_state_by_id :
               CarriedFor(id) = ValueOf(led_state_by_id[id])
    /\ SetLed =>
           /\ ValueOf(led_state_by_id[d_last.id]) = ValueOf(held.obj)
           /\ IF outport # None THEN SentFor(d_last.id) /\ d_error = NoError
              ELSE d_last.sent = <<>>

\* with the port open: pad (2, 1) pulsing orange and track button 3 on, both
\* set earlier, and pad (3, 1) just set to orange, shadow and device agreeing
C18_Witness ==
    /\ SetLed
    /\ d_last.id = pad(3, 1)
    /\ outport # None
    /\ d_error = NoError
    /\ last_set[pad(2, 1)] = [behavior |-> PULSE_1_8, r |-> 255, g |-> 68, b |-> 0]
    /\ last_set[track_button(3)] = [behavior |-> ON]
    /\ last_set[pad(3, 1)] = [behavior |-> PCT_100, r |-> 255, g |-> 68, b |-> 0]
    /\ CarriedFor(pad(2, 1)) = last_set[pad(2, 1)]
    /\ CarriedFor(track_button(3)) = last_set[track_button(3)]
    /\ CarriedFor(pad(3, 1)) = last_set[pad(3, 1)]
\* get_led_state returned the value set before, with the port open
C18_WitnessGet ==
    /\ GotLed
    /\ d_last.id = track_button(3)
    /\ outport # None
    /\ d_error = NoError
    /\ ValueOf(held.obj) = [behavior |-> BLINK]
\* set_led_state with no output port: the shadow state written, nothing sent
C18_WitnessNoPort ==
    /\ SetLed
    /\ outport = None
    /\ d_last.sent = <<>>
    /\ last_set[d_last.id] # DefaultLed(d_last.id)


\* set_led_state on a pad was the last call
SetPad == d_last.op = "set_led_state" /\ d_last.id.ty = "Pad"

\* the two messages of a pad set to led_state: the note-on with channel =
\* behavior, note = col + 8 * row and velocity = the nearest palette index, and
\* the pad color message whose one run is (note, note, r, g, b)
IsPadNoteOn(msg, id, led_state) ==
    /\ msg.type = "note_on"
    /\ msg.channel = led_state.behavior
    /\ msg.note = id.col + 8 * id.row
    /\ msg.velocity \in NearestEntries(<<led_state.r, led_state.g, led_state.b>>)
    /\ \A i \in NearestEntries(<<led_state.r, led_state.g, led_state.b>>) : msg.velocity <= i
IsOnePadSync(msg, id, led_state) ==
    /\ IsPadColors(msg)
    /\ RunsOf(PayloadOf(msg)) =
           <<[start |-> id.col + 8 * id.row, end |-> id.col + 8 * id.row,
              r |-> led_state.r, g |-> led_state.g, b |-> led_state.b]>>
SentTwoFor(id, led_state) ==
    /\ Len(d_last.sent) = 2
    /\ IsPadNoteOn(d_last.sent[1], id, led_state)
    /\ IsOnePadSync(d_last.sent[2], id, led_state)

\* C19 as stated: each set_led_state on a pad sends the note-on and then the
\* pad color message of that one pad.
C19_Original == SetPad => SentTwoFor(d_last.id, held.obj)

\* C19: with the output port open, each set_led_state on a pad sends exactly
\* two messages: first the note-on with channel = behavior, note = col + 8 * row
\* and velocity = the nearest palette index of the new color, then one pad
\* color SysEx whose only run is (note, note, new r, g, b), so that no other
\* pad's color is in it. With no output port it sends nothing.
C19_PadSetSendsNoteOnThenSync ==
    SetPad =>
        IF outport # None
        THEN SentTwoFor(d_last.id, held.obj) /\ d_error = NoError
        ELSE d_last.sent = <<>>

\* with the port open, pad (2, 1), of note 10, was set to pulsing orange while
\* pad (3, 1) next to it holds another color
C19_Witness ==
    /\ SetPad
    /\ outport # None
    /\ d_last.id = pad(2, 1)
    /\ ValueOf(held.obj) = [behavior |-> PULSE_1_8, r |-> 255, g |-> 68, b |-> 0]
    /\ last_set[pad(3, 1)] = [behavior |-> PCT_100, r |-> 255, g |-> 68, b |-> 0]
    /\ Len(d_last.sent) = 2
    /\ d_last.sent[1].note = 10
    /\ d_last.sent[1].channel = PULSE_1_8


\* the caller assigned to the fields of the object it holds: one returned by
\* get_led_state or get_input_state, or one it passed to set_led_state
CallerWrote == d_last'.op = "caller_writes" /\ held' # held

\* C20: an assignment to the fields of an object that get_led_state or
\* get_input_state returned, or that was passed to set_led_state, leaves
\* led_state_by_id and input_state_by_id as they were.
C20_CallerWritesLeaveShadowAlone ==
    [][CallerWrote => /\ led_state_by_id' = led_state_by_id
                      /\ input_state_by_id' = input_state_by_id]_vars

\* the caller gave the PadLedState it holds the value pulsing orange, which no
\* pad of the shadow map has
C20_Witness ==
    /\ d_last.op = "caller_writes"
    /\ held.kind = "PadLedState"
    /\ ValueOf(held.obj) = [behavior |-> PULSE_1_8, r |-> 255, g |-> 68, b |-> 0]
    /\ \A id \in DOMAIN led_state_by_id : ValueOf(led_state_by_id[id]) # ValueOf(held.obj)
\* the caller moved the fader state it was given; the shadow fader is at 0
C20_WitnessInput ==
    /\ d_last.op = "caller_writes"
    /\ held.kind = "FaderInputState"
    /\ held.obj.pos = 127
    /\ input_state_by_id[fader(0)].pos = 0
\* the caller changed the ButtonLedState it had passed for the shift button,
\* which still blinks in the shadow map
C20_WitnessAfterSet ==
    /\ d_last.op = "caller_writes"
    /\ held.kind = "ButtonLedState"
    /\ held.obj.behavior = OFF
    /\ shift_button \in DOMAIN led_state_by_id
    /\ led_state_by_id[shift_button].behavior = BLINK
    /\ led_state_by_id[track_button(3)].behavior = OFF


--------------------------------------------------------------------------------
\* The Device without the APC mini mk2

\* connect() found no output port
ConnectedToNothing == d_last.op = "connect" /\ outport = None

\* C21: when mido lists no port of the device, connect() returns without an
\* exception, and every set_led_state afterwards (no output port) writes the
\* shadow state, sends nothing and raises nothing.
C21_NoDeviceIsNoOpStub ==
    /\ ConnectedToNothing => d_error = NoError
    /\ (SetLed /\ outport = None) =>
           /\ d_error = NoError
           /\ d_last.sent = <<>>
           /\ ValueOf(led_state_by_id[d_last.id]) = ValueOf(held.obj)


--------------------------------------------------------------------------------
\* Decoding outside the valid ranges

\* C22: for the numbers 0..127, _from_midi_note returns a ControlID exactly for
\* the notes 0x00..0x3F, 0x64..0x6B, 0x70..0x77 and 0x7A, and
\* _from_midi_control exactly for the controllers 0x30..0x38; for every other
\* number the call raises ValueError and returns nothing.
C22_DecodeFailsExactlyOutsideRanges ==
    /\ (Returned("_from_midi_note") /\ fn_call.args[1] \in 0..127) =>
           IF fn_call.args[1] \in (0..63) \cup (100..107) \cup (112..119) \cup {122}
           THEN fn_result.exc = "none" /\ fn_result.val \in NoteControlIDs
           ELSE fn_result = [exc |-> "ValueError", val |-> <<>>]
    /\ (Returned("_from_midi_control") /\ fn_call.args[1] \in 0..127) =>
           IF fn_call.args[1] \in 48..56
           THEN fn_result.exc = "none" /\ fn_result.val \in FaderControlIDs
           ELSE fn_result = [exc |-> "ValueError", val |-> <<>>]

\* controller 57, the first past the faders, raised ValueError
C22_Witness ==
    /\ Returned("_from_midi_control")
    /\ fn_call.args[1] = 57
    /\ fn_result.exc = "ValueError"
\* note 64, the first past the pads, raised ValueError; note 122 gave shift
C22_WitnessNote ==
    /\ Returned("_from_midi_note")
    /\ \/ fn_call.args[1] = 64 /\ fn_result.exc = "ValueError"
       \/ fn_call.args[1] = 122 /\ fn_result = Ok(shift_button)


--------------------------------------------------------------------------------
\* tick() of the Device and the messages of the APC mini mk2

\* a message whose note or controller number belongs to a control
InRange(msg) ==
    IF msg.type \in {"note_on", "note_off"} THEN msg.note \in ValidNotes
    ELSE IF msg.type = "control_change" THEN msg.control \in ValidControllers
    ELSE TRUE
\* the messages of a buffer that make an event
MakesEvent(msg) == msg.type \in {"note_on", "note_off", "control_change"}
EventMessages(msgs) == SelectSeq(msgs, MakesEvent)
InRangeMessages(msgs) == SelectSeq(msgs, InRange)

\* the caller ran tick() over the messages waiting at an open inport
TickRan == d_error = NoError /\ inport # None /\ d_last'.op = "tick"

\* C23: tick() over a buffer with a message whose note or controller number
\* is out of range raises nothing, consumes the whole buffer, leaves the
\* input state as the messages in range alone would, and yields the events of
\* the messages in range, those behind the offending message included.
C23_OutOfRangeMessageDropped ==
    [][(TickRan /\ \E i \in DOMAIN in_buffer : ~InRange(in_buffer[i])) =>
           /\ d_error' = NoError
           /\ in_buffer' = <<>>
           /\ Len(yielded') = Len(EventMessages(InRangeMessages(in_buffer)))
           /\ input_state_by_id' =
                  tick_loop(InRangeMessages(in_buffer),
                            [inputs |-> [id \in DOMAIN input_state_by_id |->
                                            update_prev_state(input_state_by_id[id])],
                             events |-> <<>>, error |-> NoError, polled |-> 0]).inputs]_vars


--------------------------------------------------------------------------------
\* The messages of connect()

\* connect() found the output port of the device
ConnectedOut == d_last.op = "connect" /\ outport # None

\* the introduction with an empty payload
IsIntroduction(msg) ==
    /\ msg.type = "sysex"
    /\ msg.data = <<71, 127, 79, 96, 0, 0>>
\* the note-on that carries the shadow LED state of the control id
CarriesShadowOf(msg, id) ==
    /\ msg.type = "note_on"
    /\ msg.note = NoteOf(id)
    /\ IF id.ty = "Pad"
       THEN IsPadNoteOn(msg, id, led_state_by_id[id])
       ELSE msg.velocity = led_state_by_id[id].behavior
\* the pads and the track and scene buttons
PadsAndRowButtons == NoteControlIDs \ {shift_button}

\* C24: the messages of connect() are the introduction, then one
\* note-on for each of the 64 pads and the 16 track and scene buttons with its
\* shadow LED state, then one pad color message over the pads 0..63, and
\* nothing else.
C24_ConnectMessageSequence ==
    ConnectedOut =>
        /\ Len(d_last.sent) = 82
        /\ IsIntroduction(d_last.sent[1])
        /\ \A id \in PadsAndRowButtons :
               \E i \in 2..81 : CarriesShadowOf(d_last.sent[i], id)
        /\ IsPadColors(d_last.sent[82])
        /\ CoversInOrder(RunsOf(PayloadOf(d_last.sent[82])), 0, 63)

\* ------------------------------------------------------------------- C25
\* the steps of an iteration that belong to each phase of the loop
ServerSteps == {"metronome.sync_beats", "print"}
SurfaceSteps ==
    {"metronome.on_one", "metronome.on_tap", "button", "pad_matrix.on_midi_event"}
OnceSteps ==
    {"os2l_server.poll", "metronome.tick", "midi_input.tick", "update_led_states",
     "busking.tick", "dmx_ctrl.flush"}

\* the place of a step in the order the loop is said to have
ClaimedRank(step) ==
    CASE step = "os2l_server.poll" -> 1
      [] step \in ServerSteps -> 2
      [] step = "midi_input.tick" -> 3
      [] step \in SurfaceSteps -> 4
      [] step = "update_led_states" -> 5
      [] step = "metronome.tick" -> 6
      [] step = "busking.tick" -> 7
      [] step = "dmx_ctrl.flush" -> 8
      [] OTHER -> 9

\* the place of a step in the order of the statements of the loop
StatementRank(step) ==
    CASE step = "os2l_server.poll" -> 1
      [] step \in ServerSteps -> 2
      [] step = "metronome.tick" -> 3
      [] step = "midi_input.tick" -> 4
      [] step \in SurfaceSteps -> 5
      [] step = "update_led_states" -> 6
      [] step = "busking.tick" -> 7
      [] step = "dmx_ctrl.flush" -> 8
      [] OTHER -> 9

TimesIn(log, step) == Cardinality({i \in 1..Len(log) : log[i] = step})
IterationDone == app_pc \in {"sleep", "exited"}

\* C25 as stated: in every iteration the server is polled and its beat events
\* applied, the control surface is polled, its taps and downbeats applied and
\* the LEDs updated, then the clock advances exactly once, then the animators
\* run, then DMX is flushed.
C25_Original ==
    /\ \A i, j \in 1..Len(app_log) :
         i < j => ClaimedRank(app_log[i]) <= ClaimedRank(app_log[j])
    /\ \A step \in OnceSteps : TimesIn(app_log, step) <= 1
    /\ IterationDone => \A step \in OnceSteps : TimesIn(app_log, step) = 1

\* C25: in every iteration the server is polled and its beat events applied,
\* the clock advances exactly once, then the control surface is polled and
\* its taps and downbeats applied, the LEDs are updated, the animators run
\* and DMX is flushed: the taps and downbeats come after the advance.
C25_AdvanceBeforeControlSurface ==
    /\ \A i, j \in 1..Len(app_log) :
         i < j => StatementRank(app_log[i]) <= StatementRank(app_log[j])
    /\ \A step \in OnceSteps : TimesIn(app_log, step) <= 1
    /\ IterationDone => \A step \in OnceSteps : TimesIn(app_log, step) = 1

\* an iteration that applied a beat event and a tap has ended
C25_Witness ==
    /\ app_pc = "sleep"
    /\ TimesIn(app_log, "metronome.sync_beats") = 2
    /\ TimesIn(app_log, "metronome.on_tap") = 1

\* a downbeat was applied in an iteration after the first
C25_WitnessDownbeat ==
    /\ app_pc = "sleep"
    /\ clock = 2
    /\ TimesIn(app_log, "metronome.on_one") = 1
    /\ m_last.op = "on_one"

\* ------------------------------------------------------------------- C26
SyncStep == m_last'.op = "sync_beats" /\ clock' = clock

\* C26: sync_beats(pos, bps) sets sync_pos = pos, beats_per_sec = bps and
\* sync_secs = the time of the call and leaves now_pos, prev_pos and the tap
\* queue unchanged; the tick() that follows it yields
\* now_pos = pos + bps * (now_secs - time of the call).
C26_SyncBeatsSetsAnchor ==
    [][/\ SyncStep
          => /\ \E pos \in SyncPositions, bpm \in SyncBpms :
                   sync_pos' = RInt(pos) /\ beats_per_sec' = Rat(bpm, 60)
             /\ sync_secs' = clock
             /\ UNCHANGED <<now_pos, prev_pos, tap_queue>>
       /\ (TickStep /\ m_last.op = "sync_beats")
          => /\ sync_pos \in {RInt(pos) : pos \in SyncPositions}
             /\ IsPositionAt(now_pos', sync_pos, beats_per_sec, now_secs' - sync_secs)
      ]_vars

\* a sync after the position had moved from taps, and a tick() 1.5s later
C26_Witness ==
    /\ m_last.op = "tick"
    /\ sync_pos = RInt(2)
    /\ beats_per_sec = Rat(90, 60)
    /\ tap_queue # <<>>
    /\ sync_secs > 0
    /\ now_secs - sync_secs = 3
    /\ delta_secs = 3
    /\ now_pos = Rat(17, 4)

\* ------------------------------------------------------------------- C27
OneStep == m_last'.op = "on_one" /\ clock' = clock

\* C27: on_one() sets sync_pos to 0 and sync_secs to now_secs, the instant of
\* the clock, and leaves the tempo and the tap queue unchanged; the tick()
\* that follows it yields now_pos = beats_per_sec * (new now_secs - now_secs).
C27_OnOneRestartsAtZero ==
    [][/\ OneStep
          => /\ sync_pos' = RInt(0)
             /\ sync_secs' = now_secs
             /\ UNCHANGED <<beats_per_sec, tap_queue>>
       /\ (TickStep /\ m_last.op = "on_one")
          => IsPositionAt(now_pos', RInt(0), beats_per_sec, now_secs' - now_secs)
      ]_vars

\* a downbeat at 90 bpm, half a second after the last tick(); the next
\* tick() a second after that one
C27_Witness ==
    /\ m_last.op = "tick"
    /\ sync_pos = RInt(0)
    /\ beats_per_sec = Rat(90, 60)
    /\ tap_queue # <<>>
    /\ sync_secs > 0
    /\ delta_secs = 2
    /\ now_secs - sync_secs = 2
    /\ now_pos = Rat(3, 2)

\* ------------------------------------------------------------------- C28
\* the tap comes tap_queue_reset_secs or more after the tap before it
StaleGap ==
    /\ tap_queue # <<>>
    /\ now_secs - tap_queue[Len(tap_queue)] >= tap_queue_reset_secs * UnitsPerSec

\* C28: a tap that comes 1s or more (exactly 1s included) after the tap
\* before it leaves the queue holding that one tap only, and leaves
\* beats_per_sec, sync_pos and sync_secs unchanged.
C28_StaleTapsCleared ==
    [][(m_last'.op = "on_tap" /\ clock' = clock /\ m_error' = "none" /\ StaleGap)
          => /\ tap_queue' = <<now_secs>>
             /\ UNCHANGED <<beats_per_sec, sync_pos, sync_secs>>]_vars

\* four taps had set the tempo; the tap exactly 1s after the last of them
\* is alone in the queue
C28_Witness ==
    /\ m_last.op = "on_tap"
    /\ tap_queue = <<now_secs>>
    /\ beats_per_sec \notin {RInt(1), Rat(90, 60)}
    /\ now_secs - sync_secs = tap_queue_reset_secs * UnitsPerSec

\* ------------------------------------------------------------------- C29
\* C29: the tap queue never holds more than 4 taps, its instants never
\* decrease, and neighbours in it are less than 1s apart.
C29_TapQueueBoundedOrderedFresh ==
    /\ Len(tap_queue) <= tap_queue_max_len
    /\ \A i \in 1..(Len(tap_queue) - 1) :
         /\ tap_queue[i] <= tap_queue[i + 1]
         /\ tap_queue[i + 1] - tap_queue[i] < tap_queue_reset_secs * UnitsPerSec

\* a fifth tap pushed the first one out of a full queue
C29_Witness ==
    /\ m_last.op = "on_tap"
    /\ m_error = "none"
    /\ Len(tap_queue) = tap_queue_max_len
    /\ tap_queue[1] > 0
    /\ tap_queue[1] < tap_queue[4]
    /\ sync_secs = tap_queue[4]
    /\ beats_per_sec = RInt(3)

\* ------------------------------------------------------------------- C30
RECURSIVE Joined(_)
Joined(strs) == IF strs = <<>> THEN <<>> ELSE Head(strs) \o Joined(Tail(strs))

\* C30: a poll() completes on what is ready at the call: with no socket
\* ready it yields no event and changes nothing; when it
\* reads, every iteration of the decode loop that goes on takes a non-empty
\* frame off the buffer, so the frames taken and the buffer left make up the
\* buffer and the read, and there are no more iterations than characters.
C30_PollEndsOnWhatIsReady ==
    [][last'.op = "poll"
          => /\ ready_keys = {}
                => /\ last'.events = <<>>
                   /\ ~last'.read
                   /\ last'.accepted = None
                   /\ error' = NoError
                   /\ UNCHANGED <<client_socket, client_addr, selector, recv_buffer,
                                  backlog, conn>>
             /\ last'.read
                => LET buf == last'.before \o last'.data
                       frames == decode_frames(buf)
                   IN /\ \A i \in 1..Len(frames) : Len(frames[i]) > 0
                      /\ Joined(frames) \o recv_buffer' = buf
                      /\ Len(last'.events) <= Len(frames)
                      /\ Len(frames) <= Len(buf)
      ]_vars

\* a poll() that read two frames and the start of a third
C30_Witness ==
    /\ PolledClient
    /\ Len(decode_frames(last.before \o last.data)) = 2
    /\ Len(last.events) = 2
    /\ recv_buffer # <<>>
    /\ error = NoError

\* a poll() with no socket ready, made while a client is connected
C30_WitnessIdle ==
    /\ last.op = "poll"
    /\ ~last.read
    /\ last.accepted = None
    /\ client_socket # None
    /\ error = NoError
    /\ ready_keys = {}

\* ------------------------------------------------------------------- C31
\* C31: a poll() in which the listening socket alone is ready accepts exactly
\* one client, registers it, yields no event and reads nothing; a poll()
\* reads at most what was in flight when it was called.
C31_ListenerReadyAcceptsOne ==
    [][last'.op = "poll"
          => /\ ready_keys = {LSOCK}
                => /\ error' = NoError
                   /\ last'.accepted = Head(backlog)
                   /\ client_socket' = last'.accepted
                   /\ selector'.keys = selector.keys \cup {last'.accepted}
                   /\ backlog' = Tail(backlog)
                   /\ last'.events = <<>>
                   /\ ~last'.read
             /\ last'.read
                => \E c \in ConnIds :
                      last'.data \o conn'[c].inflight = conn[c].inflight
      ]_vars

\* ------------------------------------------------------------------- C32
\* the control a message is about, and the event it is said to make
ControlOf(msg) ==
    IF msg.type = "control_change" THEN _from_midi_control(msg.control).val
    ELSE _from_midi_note(msg.note).val
SaidEvent(msg) ==
    IF msg.type = "note_on" THEN Event("Pressed", ControlOf(msg), NoPos)
    ELSE IF msg.type = "note_off" THEN Event("Released", ControlOf(msg), NoPos)
    ELSE Event("Moved", ControlOf(msg), msg.value)
\* the places of the messages of a buffer that are about a control
About(msgs, id) ==
    {i \in DOMAIN msgs : MakesEvent(msgs[i]) /\ ControlOf(msgs[i]) = id}
LastOf(S) == CHOOSE i \in S : \A j \in S : j <= i
HasIntroduction(msgs) == \E i \in DOMAIN msgs : msgs[i].type = "sysex"

\* C32: tick() takes every buffered message in one pass and yields one event
\* for each note_on (Pressed), note_off (Released) and control_change (Moved
\* with the value) of a control, in message order; afterwards every button is down iff the
\* last note message about it was a note_on, every fader stands at the value
\* of the last control_change about it, and a control no message is about
\* is as it was.
C32_TickDrainsInMessageOrder ==
    [][TickRan =>
          /\ in_buffer' = <<>>
          /\ LET msgs == EventMessages(InRangeMessages(in_buffer)) IN
             /\ Len(yielded') = Len(msgs)
             /\ \A i \in 1..Len(msgs) : yielded'[i] = SaidEvent(msgs[i])
          /\ \A id \in DOMAIN input_state_by_id :
               LET about == About(in_buffer, id) IN
               IF is_fader(id)
               THEN HasIntroduction(in_buffer)
                       \/ input_state_by_id'[id].pos =
                              IF about = {} THEN input_state_by_id[id].pos
                              ELSE in_buffer[LastOf(about)].value
               ELSE input_state_by_id'[id].is_down =
                        IF about = {} THEN input_state_by_id[id].is_down
                        ELSE in_buffer[LastOf(about)].type = "note_on"
      ]_vars

\* ------------------------------------------------------------------- C33
\* the properties of ButtonInputState
was_pressed(input_state) == input_state.is_down /\ ~input_state.was_down
was_released(input_state) == ~input_state.is_down /\ input_state.was_down

ButtonIds == {id \in DOMAIN input_state_by_id : ~is_fader(id)}

\* C33: after every tick() the was_down of every button and pad is the
\* is_down it had when the tick() before ended, so was_pressed holds iff it
\* was up then and is down now, and was_pressed and was_released never hold
\* together.
C33_WasDownIsPreviousIsDown ==
    [][(d_error = NoError /\ d_last'.op = "tick")
          => \A id \in ButtonIds :
               LET before == input_state_by_id[id]
                   after == input_state_by_id'[id]
               IN /\ after.was_down = before.is_down
                  /\ was_pressed(after) = (~before.is_down /\ after.is_down)
                  /\ ~(was_pressed(after) /\ was_released(after))
      ]_vars

\* ------------------------------------------------------------------- C34
\* a bulk sync of any requested range returned
RangeSyncReturned ==
    /\ fn_call.fn = "_send_pad_colors_by_sysex"
    /\ fn_result # NoResult
RunColor(run) == <<run.r, run.g, run.b>>

\* C34: in the message of a bulk color sync the runs partition the notes
\* requested: the first run starts at the first note, every run starts one
\* past the end of the run before it, the last run ends at the last note,
\* start <= end in every run, every pad of a run has the color of the run, and
\* neighbouring runs differ in color.
C34_RunsPartitionRequestedRange ==
    RangeSyncReturned =>
        /\ fn_result.exc = "none"
        /\ IsPadColors(fn_result.val)
        /\ CoversInOrder(SentRuns, fn_call.args[1],
                         fn_call.args[1] + fn_call.args[2] - 1)
        /\ \A i \in DOMAIN SentRuns :
             \A n \in SentRuns[i].start..SentRuns[i].end :
                ShadowColorOfNote(n) = RunColor(SentRuns[i])
        /\ \A i \in 1..(Len(SentRuns) - 1) :
             RunColor(SentRuns[i]) # RunColor(SentRuns[i + 1])

\* pads 6, 7, 8 in red, red, orange, synced as the runs (6, 7) and (8, 8)
C34_Witness ==
    /\ RangeSyncReturned
    /\ fn_call.args = <<6, 3>>
    /\ ShadowColorOfNote(7) = ShadowColorOfNote(6)
    /\ SentRuns = <<[start |-> 6, end |-> 7, r |-> 255, g |-> 0, b |-> 0],
                    [start |-> 8, end |-> 8, r |-> 255, g |-> 200, b |-> 0]>>

\* ------------------------------------------------------------------- C35
BeatInfoReturned == fn_call.fn = "get_beat_info" /\ fn_result # NoResult

\* C35: for every position and scaler get_beat_info returns t in [0, 1) and
\* count = floor(scaler * now_pos), so that count + t = scaler * now_pos,
\* also for a negative position; and it changes nothing of the clock.
C35_CountIsFloorOfScaledPosition ==
    BeatInfoReturned =>
        LET info == fn_result.val
            scaled == RMul(fn_call.args[3], fn_call.args[2])
        IN /\ RLe(RInt(0), info.t) /\ RLt(info.t, RInt(1))
           /\ info.count = RFloor(scaled)
           /\ RAdd(RInt(info.count), info.t) = scaled
           /\ InitClock

\* ------------------------------------------------------------------- C36
\* the loop handles the next event of the poll(); the metronome ticks
EventStep ==
    /\ app_pc = "beat_events"
    /\ app_polled # <<>>
    /\ app_polled' = Tail(app_polled)
AdvanceStep == app_pc = "metronome_tick" /\ app_pc' # app_pc

\* C36: the events a poll() yielded are handled in arrival order before the
\* tick() of the iteration: a BeatEvent sets sync_pos = evt.pos,
\* beats_per_sec = evt.bpm / 60 and sync_secs = the time of the call, an event
\* of another type leaves the clock as it is; so at the tick() the clock is
\* the one the last BeatEvent of the poll() set.
C36_BeatEventsResyncInOrder ==
    [][/\ EventStep
          => LET evt == Head(app_polled) IN
             /\ \A i \in DOMAIN app_log : app_log[i] # "metronome.tick"
             /\ IF evt.type = "BeatEvent"
                THEN /\ sync_pos' = RInt(evt.pos)
                     /\ beats_per_sec' = Rat(evt.bpm, 60)
                     /\ sync_secs' = clock
                     /\ UNCHANGED <<prev_pos, now_pos, now_secs, delta_secs, tap_queue>>
                ELSE UNCHANGED clockVars
       /\ AdvanceStep
          => /\ app_polled = <<>>
             /\ TimesIn(app_log, "metronome.sync_beats") > 0
                   => /\ m_last.op = "sync_beats"
                      /\ sync_secs = clock
                      /\ IsPositionAt(now_pos', sync_pos, beats_per_sec, 0)
             /\ TimesIn(app_log, "metronome.sync_beats") = 2
                   => sync_pos = RInt(2) /\ beats_per_sec = Rat(90, 60)
      ]_vars

\* a poll() yielded a beat at position 0, 120 bpm and then one at position 2,
\* 90 bpm: the tick() that follows puts the clock at position 2
C36_Witness ==
    /\ app_pc = "midi_tick"
    /\ app_log = <<"os2l_server.poll", "metronome.sync_beats",
                   "metronome.sync_beats", "metronome.tick">>
    /\ clock > 0
    /\ sync_pos = RInt(2)
    /\ beats_per_sec = Rat(3, 2)
    /\ now_pos = RInt(2)

\* a poll() yielded a button event and a beat event; a command event alone
C36_WitnessOtherEvents ==
    /\ app_pc = "metronome_tick"
    /\ app_log = <<"os2l_server.poll", "print", "metronome.sync_beats">>
    /\ beats_per_sec = RInt(2)
    /\ clock > 0

\* C37: a client's stream is whole frames cut into reads anywhere: no poll that
\* reads from it fails in the decoder, each poll yields the events of the
\* frames its read completes, in stream order, and keeps only the unfinished
\* rest of the stream in the buffer.
C37_WellFormedStreamDecoded ==
    LET text == last.before \o last.data
        whole == 4 * (Len(text) \div 4)
    IN  (PolledClient /\ last.data # <<>>)
            => /\ ~DecodeFailed
               /\ last.events = EventsOf(Pieces(text))
               /\ recv_buffer = SubSeq(text, whole + 1, Len(text))

\* C38: a tap less than 1s after the last of three or more taps leaves exactly
\* the 4 most recent taps in the queue (the oldest of a full queue dropped
\* before the append) and sets the tempo to 3 / (t_n - t_(n-3)).
C38_FullHistoryTempoFromLastFour ==
    [][(/\ TapStep
        /\ Len(tap_queue) >= tap_queue_max_len - 1
        /\ now_secs - tap_queue[Len(tap_queue)] < UnitsPerSec)
          => LET q == tap_queue' IN
             /\ Len(q) = tap_queue_max_len
             /\ Len(tap_queue) = tap_queue_max_len => q = Append(Tail(tap_queue), now_secs)
             /\ m_error' = "none"
             /\ q[4] # q[1]
             /\ beats_per_sec' = RDiv(RInt(3), Secs(q[4] - q[1]))]_vars

\* C39: the keys of the shadow LED map are always the 64 pads and the 16 track
\* and scene buttons, and a set_led_state() that fails leaves the map as it was.
C39_ShadowKeysFixed ==
    /\ [](DOMAIN led_state_by_id = PadsAndRowButtons)
    /\ [][(d_last'.op = "set_led_state" /\ d_error = NoError /\ d_error' # NoError)
             => led_state_by_id' = led_state_by_id]_vars

\* ------------------------------------------------------------------- C40
\* the bytes of the message a bulk color sync has built
SentBytes == fn_result.val.data
ChannelsInByteRange ==
    \A n \in PAD_NOTE_START..(PAD_NOTE_END - 1) :
        \A k \in 1..3 : ShadowColorOfNote(n)[k] \in 0..255

\* C40: with every color channel of the shadow state in 0..255, building the
\* message of a bulk color sync never fails the assertion x < 16384, the two
\* length bytes join to the length of the payload, which is 8 bytes for each
\* run and at most 8 for each note (512 for 64 notes), and every byte of
\* the message is in 0..127.
C40_SysExBytesInRange ==
    (RangeSyncReturned /\ ChannelsInByteRange) =>
        /\ fn_result.exc = "none"
        /\ Join14(SentBytes[5], SentBytes[6]) = Len(SentBytes) - 6
        /\ Len(SentBytes) - 6 = 8 * Len(SentRuns)
        /\ Len(SentBytes) - 6 <= 8 * fn_call.args[2]
        /\ Len(SentBytes) - 6 < INT14_LIMIT
        /\ \A i \in DOMAIN SentBytes : SentBytes[i] \in 0..127

\* the 64 pads synced as 64 runs: a payload of 512 bytes, its length sent as
\* (4, 0), the channel 255 sent as (1, 127)
C40_Witness ==
    /\ RangeSyncReturned
    /\ fn_call.args = <<0, PAD_COUNT>>
    /\ led_state_by_id = StripedLeds
    /\ Len(SentRuns) = 64
    /\ Len(SentBytes) = 518
    /\ SubSeq(SentBytes, 5, 6) = <<4, 0>>
    /\ SubSeq(SentBytes, 7, 10) = <<0, 0, 1, 127>>

=============================================================================
